---- MODULE Spec2Model ----
(***************************************************************************)
(* A model of the moriarty source instrumenter (pkg/instrument): the AST   *)
(* rewriter that lowers if/for statements, inserts memory hooks before     *)
(* statements, desugars go statements and finalizes imports.               *)
(*                                                                         *)
(* AST nodes are records tagged by the field k (the go/ast node type).     *)
(* An identifier node carries what the type checker recorded for that      *)
(* occurrence: def (the occurrence introduces the name) and res (the       *)
(* checker reached the occurrence, so that Defs/Uses/Types hold an entry). *)
(***************************************************************************)
EXTENDS Integers, Sequences, FiniteSets, TLC

VARIABLES
    config,          \* Instrumenter.config
    typeInfo,        \* Instrumenter.typeInfo: "nil" or "info"
    instrumented,    \* Instrumenter.instrumented
    anyInstrumented, \* Instrumenter.anyInstrumented
    files,           \* the ASTs of the unit being processed (mutated in place)
    orig,            \* the same ASTs as handed in by the caller (history)
    cur,             \* index of the file instrumentSingleAST works on
    pc,              \* position inside Instrument* / instrumentSingleAST
    lastHooked,      \* whether a file of the last completed call received a hook (history)
    ncalls,          \* number of Instrument* calls completed on this Instrumenter
    cursorLog,       \* what the callbacks of the last walk did, in order (history)
    loop,            \* execution state of a for loop and of its rewritings
    err,             \* the error the last completed Instrument* call returned, or "nil"
    given,           \* the Config as the caller handed it to NewInstrumenter (history)
    launch,          \* execution state of a go statement or of its rewriting, with its tasks
    rt               \* the runtime: scheduler, strategy and the goroutines calling hooks

vars == <<config, typeInfo, instrumented, anyInstrumented, files, orig, cur, pc,
          lastHooked, ncalls, cursorLog, loop, err, given,
                   launch, rt>>

-----------------------------------------------------------------------------
(* go/ast node constructors                                                *)

NilNode == [k |-> "Nil"]

Ident(n, d, r) == [k |-> "Ident", name |-> n, def |-> d, res |-> r]

\* an identifier that uses (does not introduce) a name
Use(n, r) == Ident(n, FALSE, r)

\* an identifier node made by the instrumenter itself: in no type-checker map
NewIdent(n) == Ident(n, FALSE, FALSE)

BasicLit(v) == [k |-> "BasicLit", value |-> v]

SelectorExpr(x, sel) == [k |-> "Selector", X |-> x, Sel |-> sel]

IndexExpr(x, i) == [k |-> "Index", X |-> x, Index |-> i]

StarExpr(x) == [k |-> "Star", X |-> x]

UnaryExpr(op, x) == [k |-> "Unary", Op |-> op, X |-> x]

BinaryExpr(x, op, y) == [k |-> "Binary", X |-> x, Op |-> op, Y |-> y]

CallExpr(fun, args) == [k |-> "Call", Fun |-> fun, Args |-> args]

ParenExpr(x) == [k |-> "Paren", X |-> x]

FuncLit(body) == [k |-> "FuncLit", Body |-> body]

AssignStmt(lhs, tok, rhs) == [k |-> "Assign", Lhs |-> lhs, Tok |-> tok, Rhs |-> rhs]

IncDecStmt(x, tok) == [k |-> "IncDec", X |-> x, Tok |-> tok]

ExprStmt(x) == [k |-> "ExprStmt", X |-> x]

SendStmt(ch, v) == [k |-> "Send", Chan |-> ch, Value |-> v]

ReturnStmt(results) == [k |-> "Return", Results |-> results]

BranchStmt(tok) == [k |-> "Branch", Tok |-> tok]

BlockStmt(list) == [k |-> "Block", List |-> list]

IfStmt(init, cond, body, else) ==
    [k |-> "If", Init |-> init, Cond |-> cond, Body |-> body, Else |-> else]

ForStmt(init, cond, post, body) ==
    [k |-> "For", Init |-> init, Cond |-> cond, Post |-> post, Body |-> body]

RangeStmt(key, value, tok, x, body) ==
    [k |-> "Range", Key |-> key, Value |-> value, Tok |-> tok, X |-> x, Body |-> body]

CaseClause(list, body) == [k |-> "Case", List |-> list, Body |-> body]

SwitchStmt(init, tag, body) == [k |-> "Switch", Init |-> init, Tag |-> tag, Body |-> body]

LabeledStmt(label, stmt) == [k |-> "Labeled", Label |-> label, Stmt |-> stmt]

GoStmt(call) == [k |-> "Go", Call |-> call]

\* Recv: the declaration has a receiver; HasBody: Body is not nil
FuncDecl(name, recv, hasBody, body) ==
    [k |-> "FuncDecl", Name |-> name, Recv |-> recv, HasBody |-> hasBody, Body |-> body]

ImportSpec(name, path) == [name |-> name, path |-> path]

File(pkg, imports, decls) == [k |-> "File", Name |-> pkg, Imports |-> imports, Decls |-> decls]

-----------------------------------------------------------------------------
(* What go/types knows about the names the input programs use              *)

\* the kind of object a name denotes (the dynamic type of Uses[id])
ObjKind(n) ==
    CASE n \in {"fmt", "time"} -> "PkgName"
      [] n \in {"Millisecond"} -> "Const"
      [] n \in {"Duration"}    -> "TypeName"
      [] n \in {"Sleep", "worker", "Println", "Run"} -> "Func"
      [] OTHER -> "Var"

\* Uses[id]: the object kind, or "none" when the map has no entry
Uses(id) == IF id.res /\ ~id.def THEN ObjKind(id.name) ELSE "none"

\* Defs[id] != nil
Defs(id) == id.res /\ id.def

RECURSIVE Recorded(_)
\* the expression is a key of the Types map
Recorded(e) ==
    CASE e.k = "Ident"    -> e.res
      [] e.k = "Selector" -> Recorded(e.X) /\ e.Sel.res
      [] e.k \in {"Index", "Star", "Paren", "Unary"} -> Recorded(e.X)
      [] OTHER -> TRUE

RECURSIVE IsMap(_)
\* tv.Type.Underlying() is a *types.Map
IsMap(e) ==
    CASE e.k = "Ident"    -> e.name \in {"m", "seen"}
      [] e.k = "Selector" -> e.Sel.name \in {"tab"}
      [] e.k = "Paren"    -> IsMap(e.X)
      [] OTHER -> FALSE

isBuiltin(name) ==
    name \in {"append", "cap", "close", "complex", "copy", "delete", "imag", "len",
              "make", "new", "panic", "print", "println", "real", "recover",
              "true", "false", "nil", "iota"}

isBlankIdent(expr) == expr.k = "Ident" /\ expr.name = "_"

-----------------------------------------------------------------------------
(* Configuration                                                           *)

DefaultConfig ==
    [ImportRewrites     |-> {},
     BaseRuntimeAddress |-> "github.com/amirkhaki/moriarty/pkg/runtime",
     RuntimeAlias       |-> "",
     MemReadFunc        |-> "MemRead",
     MemWriteFunc       |-> "MemWrite",
     SpawnFunc          |-> "Spawn",
     GoroutineEnterFunc |-> "GoroutineEnter",
     GoroutineExitFunc  |-> "GoroutineExit"]

\* sha256.Sum256([]byte(importPath))[:8]: the first 8 bytes of the digest, for the
\* runtime paths that the configurations name
Sum256Head(importPath) ==
    CASE importPath = "github.com/amirkhaki/moriarty/pkg/runtime" ->
            <<93, 236, 234, 134, 7, 134, 232, 103>>
      [] importPath = "custom/runtime" -> <<38, 245, 235, 236, 81, 144, 50, 186>>
      [] importPath = "mypackage/runtime" -> <<225, 175, 41, 86, 159, 199, 52, 74>>

\* the characters hex.EncodeToString yields: two digits per byte, high nibble first
HexChars(bytes) ==
    LET hextable == <<"0", "1", "2", "3", "4", "5", "6", "7",
                      "8", "9", "a", "b", "c", "d", "e", "f">>
    IN  [i \in 1..2 * Len(bytes) |->
            IF i % 2 = 1
            THEN hextable[(bytes[(i + 1) \div 2] \div 16) + 1]
            ELSE hextable[(bytes[i \div 2] % 16) + 1]]

\* hex.EncodeToString: the string made of the digits
EncodeToString(bytes) ==
    LET RECURSIVE Concat(_)
        Concat(chars) == IF chars = <<>> THEN "" ELSE Head(chars) \o Concat(Tail(chars))
    IN  Concat(HexChars(bytes))

\* "__moriarty_" followed by the hex of the first 8 bytes of the path's SHA-256
generateRuntimeAlias(importPath) == "__moriarty_" \o EncodeToString(Sum256Head(importPath))

\* a nil *Config
NilConfig == [nil |-> TRUE]

\* a constructor that mints the alias whether or not the caller supplied one
NewInstrumenterAlwaysMints(cfg) ==
    LET c == IF cfg = NilConfig THEN DefaultConfig ELSE cfg
    IN  [c EXCEPT !.RuntimeAlias = generateRuntimeAlias(c.BaseRuntimeAddress)]

\* the Config the Instrumenter keeps: the caller's (DefaultConfig() for nil), with the
\* alias filled in when it was empty
NewInstrumenter(cfg) ==
    LET c == IF cfg = NilConfig THEN DefaultConfig ELSE cfg
    IN  IF c.RuntimeAlias = ""
        THEN [c EXCEPT !.RuntimeAlias = generateRuntimeAlias(c.BaseRuntimeAddress)]
        ELSE c

-----------------------------------------------------------------------------
(* Hook calls                                                              *)

\* ALIAS.fn(unsafe.Pointer(&expr))
MemCall(instr, fn, expr) ==
    CallExpr(SelectorExpr(NewIdent(instr.config.RuntimeAlias), NewIdent(fn)),
             <<CallExpr(SelectorExpr(NewIdent("unsafe"), NewIdent("Pointer")),
                        <<UnaryExpr("&", expr)>>)>>)

makeMemReadCall(instr, expr) == MemCall(instr, instr.config.MemReadFunc, expr)

makeMemWriteCall(instr, expr) == MemCall(instr, instr.config.MemWriteFunc, expr)

\* ALIAS.fn()
LifecycleCall(instr, fn) ==
    ExprStmt(CallExpr(SelectorExpr(NewIdent(instr.config.RuntimeAlias), NewIdent(fn)), <<>>))

-----------------------------------------------------------------------------
(* Read and write collection. instr is the receiver: [config, typeInfo].   *)
(* Each appended statement is one make*Call, which also sets the           *)
(* instrumented flag; the handlers below report that as made.              *)

RECURSIVE collectReads(_, _)
RECURSIVE collectReadsAll(_, _)

\* the CallExpr case: the reads of the callee position
collectReadsFun(instr, fun) ==
    CASE fun.k = "Ident" -> <<>>
      [] fun.k = "Selector" ->
            IF instr.typeInfo # "nil"
            THEN IF fun.X.k = "Ident"
                 THEN IF Uses(fun.X) # "none"
                      THEN IF Uses(fun.X) = "PkgName"
                           THEN <<>>
                           ELSE collectReads(instr, fun.X)
                      ELSE <<>>
                 ELSE collectReads(instr, fun.X)
            ELSE IF fun.X.k # "Ident" THEN collectReads(instr, fun.X) ELSE <<>>
      [] OTHER -> collectReads(instr, fun)

\* the SelectorExpr case: TRUE when the selector is skipped without a hook
selectorSkipped(instr, e) ==
    IF instr.typeInfo # "nil"
    THEN IF Uses(e.Sel) # "none"
         THEN Uses(e.Sel) \in {"Const", "PkgName", "TypeName", "Nil"}
         ELSE e.X.k = "Ident" /\ Uses(e.X) \in {"PkgName", "none"}
    ELSE e.X.k = "Ident"

\* the IndexExpr case: TRUE when the element is known not to be a map element
indexAddressable(instr, e) ==
    instr.typeInfo # "nil" /\ Recorded(e.X) /\ ~IsMap(e.X)

collectReads(instr, expr) ==
    CASE expr.k = "Nil" -> <<>>
      [] expr.k = "Ident" ->
            IF isBuiltin(expr.name)
            THEN <<>>
            ELSE IF instr.typeInfo # "nil"
                    /\ Uses(expr) \in {"PkgName", "TypeName", "Const", "Nil", "Func"}
                 THEN <<>>
                 ELSE <<ExprStmt(makeMemReadCall(instr, expr))>>
      [] expr.k = "Selector" ->
            IF selectorSkipped(instr, expr)
            THEN <<>>
            ELSE collectReads(instr, expr.X) \o <<ExprStmt(makeMemReadCall(instr, expr))>>
      [] expr.k = "Index" ->
            collectReads(instr, expr.X) \o collectReads(instr, expr.Index)
            \o (IF indexAddressable(instr, expr)
                THEN <<ExprStmt(makeMemReadCall(instr, expr))>>
                ELSE <<>>)
      [] expr.k = "Star" ->
            collectReads(instr, expr.X) \o <<ExprStmt(makeMemReadCall(instr, expr))>>
      [] expr.k = "Unary" ->
            IF expr.Op = "&" THEN <<>> ELSE collectReads(instr, expr.X)
      [] expr.k = "Binary" ->
            collectReads(instr, expr.X) \o collectReads(instr, expr.Y)
      [] expr.k = "Call" ->
            collectReadsFun(instr, expr.Fun) \o collectReadsAll(instr, expr.Args)
      [] expr.k = "Paren" -> collectReads(instr, expr.X)
      [] OTHER -> <<>>   \* BasicLit, FuncLit, CompositeLit

\* for _, e := range exprs { collectReads(e, &stmts) }
collectReadsAll(instr, exprs) ==
    IF exprs = <<>>
    THEN <<>>
    ELSE collectReads(instr, Head(exprs)) \o collectReadsAll(instr, Tail(exprs))

RECURSIVE collectWritesIndexAlways(_, _)
\* a write walk that emits the write of X[I] without asking the type of X
collectWritesIndexAlways(instr, expr) ==
    CASE expr.k = "Ident" -> <<ExprStmt(makeMemWriteCall(instr, expr))>>
      [] expr.k \in {"Selector", "Star"} ->
            collectReads(instr, expr.X) \o <<ExprStmt(makeMemWriteCall(instr, expr))>>
      [] expr.k = "Index" ->
            collectReads(instr, expr.X) \o collectReads(instr, expr.Index)
            \o <<ExprStmt(makeMemWriteCall(instr, expr))>>
      [] expr.k = "Paren" -> collectWritesIndexAlways(instr, expr.X)
      [] OTHER -> <<>>

RECURSIVE collectWrites(_, _)
collectWrites(instr, expr) ==
    CASE expr.k = "Ident" -> <<ExprStmt(makeMemWriteCall(instr, expr))>>
      [] expr.k = "Selector" ->
            collectReads(instr, expr.X) \o <<ExprStmt(makeMemWriteCall(instr, expr))>>
      [] expr.k = "Index" ->
            collectReads(instr, expr.X) \o collectReads(instr, expr.Index)
            \o (IF indexAddressable(instr, expr)
                THEN <<ExprStmt(makeMemWriteCall(instr, expr))>>
                ELSE <<>>)
      [] expr.k = "Star" ->
            collectReads(instr, expr.X) \o <<ExprStmt(makeMemWriteCall(instr, expr))>>
      [] expr.k = "Paren" -> collectWrites(instr, expr.X)
      [] OTHER -> <<>>

-----------------------------------------------------------------------------
(* The callbacks of the passes. Each takes the receiver, the node under    *)
(* the cursor and inList = canInsertBefore(c), and yields                  *)
(*   before: the statements given to c.InsertBefore, in order,             *)
(*   node:   the node left under the cursor (mutated or c.Replace'd),      *)
(*   made:   whether the callback set instr.instrumented.                  *)

R(before, node, made) == [before |-> before, node |-> node, made |-> made]

Unchanged(stmt) == R(<<>>, stmt, FALSE)

\* canInsertBefore: c.Index() >= 0, the node sits in a slice field of its parent
canInsertBefore(inList) == inList

\* a lowering of if that wraps INIT and the statement but leaves INIT in the statement
lowerIfStmtKeepInit(instr, stmt, inList) ==
    IF stmt.Init # NilNode /\ canInsertBefore(inList)
    THEN R(<<>>, BlockStmt(<<stmt.Init, stmt>>), FALSE)
    ELSE Unchanged(stmt)

\* Pass 0
lowerIfStmt(instr, stmt, inList) ==
    IF stmt.Init # NilNode /\ canInsertBefore(inList)
    THEN R(<<>>, BlockStmt(<<stmt.Init, [stmt EXCEPT !.Init = NilNode]>>), FALSE)
    ELSE Unchanged(stmt)

\* a lowering that appends POST to the body and leaves it in the loop header as well
lowerForStmtKeepPost(instr, stmt, inList) ==
    IF ~canInsertBefore(inList)
    THEN Unchanged(stmt)
    ELSE LET moved == IF stmt.Post # NilNode
                      THEN [stmt EXCEPT !.Body = Append(stmt.Body, stmt.Post)]
                      ELSE stmt
         IN  IF stmt.Init # NilNode
             THEN R(<<>>, BlockStmt(<<stmt.Init, [moved EXCEPT !.Init = NilNode]>>), FALSE)
             ELSE R(<<>>, moved, FALSE)

lowerForStmt(instr, stmt, inList) ==
    IF ~canInsertBefore(inList)
    THEN Unchanged(stmt)
    ELSE LET hasInit == stmt.Init # NilNode
             hasPost == stmt.Post # NilNode
             moved   == IF hasPost
                        THEN [stmt EXCEPT !.Body = Append(stmt.Body, stmt.Post),
                                          !.Post = NilNode]
                        ELSE stmt
         IN  IF hasInit
             THEN R(<<>>, BlockStmt(<<stmt.Init, [moved EXCEPT !.Init = NilNode]>>), FALSE)
             ELSE R(<<>>, moved, FALSE)

\* Pass 1
\* an if-condition handler that inserts without asking canInsertBefore
instrumentIfStmtAnywhere(instr, stmt, inList) ==
    IF stmt.Cond # NilNode
    THEN LET readStmts == collectReads(instr, stmt.Cond)
         IN  R(readStmts, stmt, readStmts # <<>>)
    ELSE Unchanged(stmt)

instrumentIfStmt(instr, stmt, inList) ==
    IF stmt.Cond # NilNode /\ canInsertBefore(inList)
    THEN LET readStmts == collectReads(instr, stmt.Cond)
         IN  R(readStmts, stmt, readStmts # <<>>)
    ELSE Unchanged(stmt)

\* a for-condition handler that puts the reads in place of the loop body
instrumentForStmtDropsBody(instr, stmt, inList) ==
    IF stmt.Cond # NilNode
    THEN LET readStmts == collectReads(instr, stmt.Cond)
         IN  R(IF canInsertBefore(inList) THEN readStmts ELSE <<>>,
               [stmt EXCEPT !.Body = readStmts],
               readStmts # <<>>)
    ELSE Unchanged(stmt)

instrumentForStmt(instr, stmt, inList) ==
    IF stmt.Cond # NilNode
    THEN LET readStmts == collectReads(instr, stmt.Cond)
         IN  R(IF canInsertBefore(inList) THEN readStmts ELSE <<>>,
               [stmt EXCEPT !.Body = stmt.Body \o readStmts],
               readStmts # <<>>)
    ELSE Unchanged(stmt)

instrumentSwitchStmt(instr, stmt, inList) ==
    IF stmt.Tag # NilNode /\ canInsertBefore(inList)
    THEN LET readStmts == collectReads(instr, stmt.Tag)
         IN  R(readStmts, stmt, readStmts # <<>>)
    ELSE Unchanged(stmt)

\* an inc/dec handler that inserts the write hook before the read hook
instrumentIncDecWriteFirst(instr, stmt, inList) ==
    IF ~canInsertBefore(inList)
    THEN Unchanged(stmt)
    ELSE R(<<ExprStmt(makeMemWriteCall(instr, stmt.X)),
             ExprStmt(makeMemReadCall(instr, stmt.X))>>, stmt, TRUE)

instrumentIncDec(instr, stmt, inList) ==
    IF ~canInsertBefore(inList)
    THEN Unchanged(stmt)
    ELSE R(<<ExprStmt(makeMemReadCall(instr, stmt.X)),
             ExprStmt(makeMemWriteCall(instr, stmt.X))>>, stmt, TRUE)

\* the writes instrumentAssignment collects for one left-hand side
assignWrites(instr, tok, lhs) ==
    IF isBlankIdent(lhs)
    THEN <<>>
    ELSE IF tok = ":="
         THEN IF lhs.k = "Ident"
              THEN IF instr.typeInfo # "nil" /\ ~Defs(lhs)
                   THEN collectWrites(instr, lhs)
                   ELSE <<>>
              ELSE collectWrites(instr, lhs)
         ELSE collectWrites(instr, lhs)

\* the reads instrumentAssignment collects for one left-hand side
assignLhsReads(instr, tok, lhs) ==
    IF ~isBlankIdent(lhs) /\ tok # "=" /\ tok # ":="
    THEN collectReads(instr, lhs)
    ELSE <<>>

RECURSIVE assignLhsReadsAll(_, _, _)
assignLhsReadsAll(instr, tok, lhss) ==
    IF lhss = <<>>
    THEN <<>>
    ELSE assignLhsReads(instr, tok, Head(lhss)) \o assignLhsReadsAll(instr, tok, Tail(lhss))

RECURSIVE assignWritesAll(_, _, _)
assignWritesAll(instr, tok, lhss) ==
    IF lhss = <<>>
    THEN <<>>
    ELSE assignWrites(instr, tok, Head(lhss)) \o assignWritesAll(instr, tok, Tail(lhss))

instrumentAssignment(instr, stmt, inList) ==
    IF ~canInsertBefore(inList)
    THEN Unchanged(stmt)
    ELSE LET readStmts  == collectReadsAll(instr, stmt.Rhs)
                           \o assignLhsReadsAll(instr, stmt.Tok, stmt.Lhs)
             writeStmts == assignWritesAll(instr, stmt.Tok, stmt.Lhs)
         IN  R(readStmts \o writeStmts, stmt, readStmts \o writeStmts # <<>>)

instrumentSend(instr, stmt, inList) ==
    IF ~canInsertBefore(inList)
    THEN Unchanged(stmt)
    ELSE LET readStmts == collectReads(instr, stmt.Chan) \o collectReads(instr, stmt.Value)
         IN  R(readStmts, stmt, readStmts # <<>>)

instrumentRange(instr, stmt, inList) ==
    IF ~canInsertBefore(inList)
    THEN Unchanged(stmt)
    ELSE LET readStmts  == collectReads(instr, stmt.X)
             keyWrites  == IF stmt.Key # NilNode /\ ~isBlankIdent(stmt.Key)
                           THEN collectWrites(instr, stmt.Key) ELSE <<>>
             valWrites  == IF stmt.Value # NilNode /\ ~isBlankIdent(stmt.Value)
                           THEN collectWrites(instr, stmt.Value) ELSE <<>>
             writeStmts == keyWrites \o valWrites
         IN  IF stmt.Tok = ":="
             THEN R(readStmts, [stmt EXCEPT !.Body = writeStmts \o stmt.Body],
                    readStmts \o writeStmts # <<>>)
             ELSE R(readStmts \o writeStmts, stmt, readStmts \o writeStmts # <<>>)

instrumentReturn(instr, stmt, inList) ==
    IF ~canInsertBefore(inList)
    THEN Unchanged(stmt)
    ELSE LET readStmts == collectReadsAll(instr, stmt.Results)
         IN  R(readStmts, stmt, readStmts # <<>>)

instrumentExprStmt(instr, stmt, inList) ==
    IF ~canInsertBefore(inList)
    THEN Unchanged(stmt)
    ELSE LET readStmts == collectReads(instr, stmt.X)
         IN  R(readStmts, stmt, readStmts # <<>>)

\* Pass 2
\* fmt.Sprintf("__moriarty_p%d", i), i counted from 0
paramName(i) == "__moriarty_p" \o ToString(i)

RECURSIVE goBindingsBindFirst(_, _, _)
\* a capture loop that binds each argument before collecting its reads
goBindingsBindFirst(instr, args, i) ==
    IF i >= Len(args)
    THEN <<>>
    ELSE <<AssignStmt(<<Ident(paramName(i), TRUE, FALSE)>>, ":=", <<args[i + 1]>>)>>
         \o collectReads(instr, args[i + 1])
         \o goBindingsBindFirst(instr, args, i + 1)

RECURSIVE goBindings(_, _, _)
\* the loop over callExpr.Args from index i (0-based): reads of the argument, then pN := argN
goBindings(instr, args, i) ==
    IF i >= Len(args)
    THEN <<>>
    ELSE collectReads(instr, args[i + 1])
         \o <<AssignStmt(<<Ident(paramName(i), TRUE, FALSE)>>, ":=", <<args[i + 1]>>)>>
         \o goBindings(instr, args, i + 1)

goParamIdents(args) == [i \in 1..Len(args) |-> Ident(paramName(i - 1), TRUE, FALSE)]

\* a go handler that replaces the statement only where a statement could be inserted
instrumentGoStmtInListOnly(instr, stmt, inList) ==
    IF ~canInsertBefore(inList)
    THEN Unchanged(stmt)
    ELSE R(<<>>,
           BlockStmt(goBindings(instr, stmt.Call.Args, 0)
                     \o <<ExprStmt(CallExpr(
                            SelectorExpr(NewIdent(instr.config.RuntimeAlias),
                                         NewIdent(instr.config.SpawnFunc)),
                            <<FuncLit(<<LifecycleCall(instr, instr.config.GoroutineEnterFunc),
                                        ExprStmt(CallExpr(stmt.Call.Fun,
                                                          goParamIdents(stmt.Call.Args))),
                                        LifecycleCall(instr, instr.config.GoroutineExitFunc)>>)>>))>>),
           TRUE)

instrumentGoStmt(instr, stmt, inList) ==
    LET callExpr    == stmt.Call
        blockStmts  == goBindings(instr, callExpr.Args, 0)
        wrappedCall == CallExpr(callExpr.Fun, goParamIdents(callExpr.Args))
        enterCall   == LifecycleCall(instr, instr.config.GoroutineEnterFunc)
        exitCall    == LifecycleCall(instr, instr.config.GoroutineExitFunc)
        funcLit     == FuncLit(<<enterCall, ExprStmt(wrappedCall), exitCall>>)
        spawnCall   == ExprStmt(CallExpr(SelectorExpr(NewIdent(instr.config.RuntimeAlias),
                                                      NewIdent(instr.config.SpawnFunc)),
                                         <<funcLit>>))
    IN  R(<<>>, BlockStmt(blockStmts \o <<spawnCall>>), TRUE)

-----------------------------------------------------------------------------
(* astutil.Apply(f, nil, post): the children of a node are walked before   *)
(* post runs on it; nodes inserted or put in place by the cursor are not   *)
(* walked. pass selects the callback of instrumentSingleAST.               *)

post(pass, instr, n, inList) ==
    CASE pass = "lower" /\ n.k = "If"  -> lowerIfStmt(instr, n, inList)
      [] pass = "lower" /\ n.k = "For" -> lowerForStmt(instr, n, inList)
      [] pass = "mem" /\ n.k = "If"       -> instrumentIfStmt(instr, n, inList)
      [] pass = "mem" /\ n.k = "For"      -> instrumentForStmt(instr, n, inList)
      [] pass = "mem" /\ n.k = "Switch"   -> instrumentSwitchStmt(instr, n, inList)
      [] pass = "mem" /\ n.k = "IncDec"   -> instrumentIncDec(instr, n, inList)
      [] pass = "mem" /\ n.k = "Assign"   -> instrumentAssignment(instr, n, inList)
      [] pass = "mem" /\ n.k = "Send"     -> instrumentSend(instr, n, inList)
      [] pass = "mem" /\ n.k = "Range"    -> instrumentRange(instr, n, inList)
      [] pass = "mem" /\ n.k = "Return"   -> instrumentReturn(instr, n, inList)
      [] pass = "mem" /\ n.k = "ExprStmt" -> instrumentExprStmt(instr, n, inList)
      [] pass = "go" /\ n.k = "Go" -> instrumentGoStmt(instr, n, inList)
      [] OTHER -> Unchanged(n)

\* the result of walking a node or a list: the new value, whether a callback set
\* instr.instrumented, and what the callbacks did, in order (kept as history)
W(val, made, log) == [val |-> val, made |-> made, log |-> log]

\* the fields of a node that the walk descends into, in the order it visits them, each
\* with the kind of its content
Slots(n) ==
    CASE n.k = "FuncLit"  -> << <<"Body", "list">> >>
      [] n.k = "Call"     -> << <<"Fun", "expr">>, <<"Args", "exprs">> >>
      [] n.k \in {"Paren", "Unary", "Star", "Selector"} -> << <<"X", "expr">> >>
      [] n.k = "Binary"   -> << <<"X", "expr">>, <<"Y", "expr">> >>
      [] n.k = "Index"    -> << <<"X", "expr">>, <<"Index", "expr">> >>
      [] n.k = "Assign"   -> << <<"Lhs", "exprs">>, <<"Rhs", "exprs">> >>
      [] n.k \in {"ExprStmt", "IncDec"} -> << <<"X", "expr">> >>
      [] n.k = "Send"     -> << <<"Chan", "expr">>, <<"Value", "expr">> >>
      [] n.k = "Return"   -> << <<"Results", "exprs">> >>
      [] n.k = "Go"       -> << <<"Call", "expr">> >>
      [] n.k = "Block"    -> << <<"List", "list">> >>
      [] n.k = "Labeled"  -> << <<"Stmt", "stmt">> >>
      [] n.k = "If"       -> << <<"Init", "stmt">>, <<"Cond", "expr">>, <<"Body", "list">>,
                                <<"Else", "stmt">> >>
      [] n.k = "For"      -> << <<"Init", "stmt">>, <<"Cond", "expr">>, <<"Post", "stmt">>,
                                <<"Body", "list">> >>
      [] n.k = "Range"    -> << <<"X", "expr">>, <<"Body", "list">> >>
      [] n.k = "Switch"   -> << <<"Init", "stmt">>, <<"Tag", "expr">>, <<"Body", "nodes">> >>
      [] n.k \in {"Case", "FuncDecl"} -> << <<"Body", "list">> >>
      [] n.k = "File"     -> << <<"Decls", "nodes">> >>
      [] OTHER -> <<>>

\* what one run of the callback did: the node it was given, whether that node sat in a
\* list, the statements it inserted before it and the node it left
Visit(stmt, inList, r) ==
    [stmt |-> stmt, inList |-> inList, before |-> r.before, node |-> r.node]

RECURSIVE Flat(_)
\* the concatenation of a sequence of sequences
Flat(ss) == IF ss = <<>> THEN <<>> ELSE Head(ss) \o Flat(Tail(ss))

\* the children found in one field
SlotKids(n, slot) ==
    IF slot[2] \in {"expr", "stmt"}
    THEN << [f |-> slot[1], kind |-> slot[2], node |-> n[slot[1]]] >>
    ELSE [i \in 1..Len(n[slot[1]]) |->
             [f |-> slot[1], kind |-> slot[2], node |-> n[slot[1]][i]]]

\* the children of a node in the order the walk visits them
Kids(n) == Flat([j \in 1..Len(Slots(n)) |-> SlotKids(n, Slots(n)[j])])

\* the content of a field after the walk: in a statement list, what was inserted before
\* an element lands in the list before it
SlotVal(slot, kids, rs) ==
    CASE slot[2] \in {"expr", "stmt"} ->
            rs[CHOOSE j \in 1..Len(kids) : kids[j].f = slot[1]].val
      [] slot[2] = "list" ->
            Flat([j \in 1..Len(kids) |->
                     IF kids[j].f = slot[1] THEN rs[j].before \o <<rs[j].val>> ELSE <<>>])
      [] OTHER ->
            Flat([j \in 1..Len(kids) |->
                     IF kids[j].f = slot[1] THEN <<rs[j].val>> ELSE <<>>])

RECURSIVE SetSlots(_, _, _, _)
\* the node with each walked field put in place
SetSlots(n, slots, kids, rs) ==
    IF slots = <<>>
    THEN n
    ELSE SetSlots([n EXCEPT ![Head(slots)[1]] = SlotVal(Head(slots), kids, rs)],
                  Tail(slots), kids, rs)

\* a node whose children have been walked
Joined(n, kids, rs) ==
    W(SetSlots(n, Slots(n), kids, rs),
      \E j \in 1..Len(kids) : rs[j].made,
      Flat([j \in 1..Len(kids) |-> rs[j].log]))

\* the cursor on a statement whose children are walked: the callback runs on it
Cursor(c, inList, r) ==
    [before |-> r.before, val |-> r.node, made |-> c.made \/ r.made,
     log |-> c.log \o <<Visit(c.val, inList, r)>>]

\* the callback on a node whose children rs are walked; it acts on statements only, and
\* an absent node or an expression without children is left as it is
Under(pass, instr, n, isStmt, inList, rs) ==
    IF rs = <<>> /\ (n = NilNode \/ ~isStmt)
    THEN [before |-> <<>>, val |-> n, made |-> FALSE, log |-> <<>>]
    ELSE IF isStmt
         THEN Cursor(Joined(n, Kids(n), rs), inList,
                     post(pass, instr, SetSlots(n, Slots(n), Kids(n), rs), inList))
         ELSE [before |-> <<>>, val |-> SetSlots(n, Slots(n), Kids(n), rs),
               made |-> \E j \in 1..Len(rs) : rs[j].made,
               log |-> Flat([j \in 1..Len(rs) |-> rs[j].log])]

RECURSIVE ApplyNode(_, _, _, _, _)
\* one node under the cursor: its children are walked in order, then the callback runs;
\* a child is a statement when its field holds statements, and takes insertions when
\* that field is a statement list
ApplyNode(pass, instr, n, isStmt, inList) ==
    Under(pass, instr, n, isStmt, inList,
          [j \in 1..Len(Kids(n)) |->
              ApplyNode(pass, instr, Kids(n)[j].node,
                        Kids(n)[j].kind \in {"stmt", "list"},
                        Kids(n)[j].kind = "list")])

\* astutil.Apply on a whole file
Apply(pass, instr, f) == ApplyNode(pass, instr, f, FALSE, FALSE)

-----------------------------------------------------------------------------
(* The rest of instrumentSingleAST                                         *)

RECURSIVE bracketMain(_, _)
\* the loop over f.Decls: the first receiverless func main gets the brackets
bracketMain(instr, decls) ==
    IF decls = <<>>
    THEN [list |-> <<>>, made |-> FALSE]
    ELSE LET d == Head(decls)
         IN  IF d.Name.name = "main" /\ ~d.Recv
             THEN IF d.HasBody
                  THEN [list |-> <<[d EXCEPT !.Body =
                                      <<LifecycleCall(instr, instr.config.GoroutineEnterFunc)>>
                                      \o d.Body
                                      \o <<LifecycleCall(instr, instr.config.GoroutineExitFunc)>>]>>
                                 \o Tail(decls),
                        made |-> TRUE]
                  ELSE [list |-> decls, made |-> FALSE]
             ELSE LET t == bracketMain(instr, Tail(decls))
                  IN  [list |-> <<d>> \o t.list, made |-> t.made]

\* a bracketing that does not ask for the package name
instrumentMainFunctionAnyPackage(instr, f) ==
    LET b == bracketMain(instr, f.Decls)
    IN  [file |-> [f EXCEPT !.Decls = b.list], made |-> b.made]

instrumentMainFunction(instr, f) ==
    IF f.Name # "main"
    THEN [file |-> f, made |-> FALSE]
    ELSE LET b == bracketMain(instr, f.Decls)
         IN  [file |-> [f EXCEPT !.Decls = b.list], made |-> b.made]

\* astutil.AddNamedImport: adds the import if absent (same name and same path)
AddNamedImport(imports, name, path) ==
    IF \E i \in 1..Len(imports) : imports[i].name = name /\ imports[i].path = path
    THEN imports
    ELSE Append(imports, ImportSpec(name, path))

AddImport(imports, path) == AddNamedImport(imports, "", path)

\* astutil.RewriteImport: every import of oldPath now names newPath
RewriteImport(imports, oldPath, newPath) ==
    [i \in 1..Len(imports) |->
        IF imports[i].path = oldPath THEN [imports[i] EXCEPT !.path = newPath] ELSE imports[i]]

RECURSIVE RewriteImports(_, _)
\* the rewrites applied in the order the map iteration happened to yield
RewriteImports(imports, order) ==
    IF order = <<>>
    THEN imports
    ELSE RewriteImports(RewriteImport(imports, Head(order)[1], Head(order)[2]), Tail(order))

\* a finalization that adds the imports whether or not a hook was added
finalizeImportsAlways(instr, f, dirty) ==
    [f EXCEPT !.Imports =
        AddNamedImport(AddImport(f.Imports, "unsafe"),
                       instr.config.RuntimeAlias, instr.config.BaseRuntimeAddress)]

\* the import finalization at the end of instrumentSingleAST
finalizeImports(instr, f, dirty) ==
    IF dirty
    THEN [f EXCEPT !.Imports =
            AddNamedImport(AddImport(f.Imports, "unsafe"),
                           instr.config.RuntimeAlias, instr.config.BaseRuntimeAddress)]
    ELSE f

-----------------------------------------------------------------------------
(* The identifiers of a tree, for the type checker's maps                  *)

RECURSIVE IdentsE(_)
RECURSIVE IdentsS(_)

IdentsEs(es) == UNION {IdentsE(es[i]) : i \in 1..Len(es)}
IdentsL(list) == UNION {IdentsS(list[i]) : i \in 1..Len(list)}

IdentsE(e) ==
    CASE e.k = "Ident"    -> {e}
      [] e.k = "Selector" -> IdentsE(e.X) \cup {e.Sel}
      [] e.k \in {"Star", "Unary", "Paren"} -> IdentsE(e.X)
      [] e.k = "Index"    -> IdentsE(e.X) \cup IdentsE(e.Index)
      [] e.k = "Binary"   -> IdentsE(e.X) \cup IdentsE(e.Y)
      [] e.k = "Call"     -> IdentsE(e.Fun) \cup IdentsEs(e.Args)
      [] e.k = "FuncLit"  -> IdentsL(e.Body)
      [] OTHER -> {}

IdentsS(s) ==
    CASE s.k = "Assign"   -> IdentsEs(s.Lhs) \cup IdentsEs(s.Rhs)
      [] s.k \in {"ExprStmt", "IncDec"} -> IdentsE(s.X)
      [] s.k = "Send"     -> IdentsE(s.Chan) \cup IdentsE(s.Value)
      [] s.k = "Return"   -> IdentsEs(s.Results)
      [] s.k = "Go"       -> IdentsE(s.Call)
      [] s.k = "Block"    -> IdentsL(s.List)
      [] s.k = "Labeled"  -> IdentsS(s.Stmt)
      [] s.k = "If"       -> IdentsS(s.Init) \cup IdentsE(s.Cond) \cup IdentsL(s.Body)
                             \cup IdentsS(s.Else)
      [] s.k = "For"      -> IdentsS(s.Init) \cup IdentsE(s.Cond) \cup IdentsS(s.Post)
                             \cup IdentsL(s.Body)
      [] s.k = "Range"    -> IdentsE(s.Key) \cup IdentsE(s.Value) \cup IdentsE(s.X)
                             \cup IdentsL(s.Body)
      [] s.k = "Switch"   -> IdentsS(s.Init) \cup IdentsE(s.Tag) \cup IdentsL(s.Body)
      [] s.k = "Case"     -> IdentsEs(s.List) \cup IdentsL(s.Body)
      [] s.k = "FuncDecl" -> {s.Name} \cup IdentsL(s.Body)
      [] OTHER -> {}

\* the identifiers of a unit (a sequence of files)
IdentsU(unit) == UNION {IdentsL(unit[i].Decls) : i \in 1..Len(unit)}

\* conf.Check over the unit, then the test that drops useless type information:
\* typeErr != nil && len(Defs) == 0 && len(Uses) == 0
typeCheck(unit) ==
    LET ids     == IdentsU(unit)
        typeErr == \E id \in ids : ~id.res
        defs    == {id \in ids : Defs(id)}
        uses    == {id \in ids : Uses(id) # "none"}
    IN  IF typeErr /\ defs = {} /\ uses = {} THEN "nil" ELSE "info"

-----------------------------------------------------------------------------
(* Input programs. r tells whether the type checker reached the statement  *)
(* (it stops at the first error, so what follows has no Defs/Uses/Types).  *)

MaxArgs  == 2   \* arguments of a go statement's call
MaxFiles == 2   \* files of a unit handed to InstrumentASTs
MaxCalls == 2   \* Instrument* calls on one Instrumenter
MaxIter  == 3   \* iterations of an executed loop
MaxSteps == 16  \* executed statements and conditions of one run

V(n, r) == Use(n, r)
D(n, r) == Ident(n, TRUE, r)
Lit(v)  == BasicLit(v)
Field(x, f, r) == SelectorExpr(V(x, r), Use(f, r))

\* x := 10;  x = 20;  y := x + 5;  x, y := 20, 30;  x++;  var w int
sDefine(r)     == AssignStmt(<<D("x", r)>>, ":=", <<Lit(10)>>)
sAssign(r)     == AssignStmt(<<V("x", r)>>, "=", <<Lit(20)>>)
sDefineRead(r) == AssignStmt(<<D("y", r)>>, ":=", <<BinaryExpr(V("x", r), "+", Lit(5))>>)
sMixed(r)      == AssignStmt(<<V("x", r), D("y", r)>>, ":=", <<Lit(20), Lit(30)>>)
sInc(r)        == IncDecStmt(V("x", r), "++")
sVarDecl(r)    == [k |-> "Decl", Name |-> D("w", r)]

\* assignments: blank and new names, several targets, stores through pointers (also in
\* parentheses), fields,
\* array and map elements and to a variable of another package, compound operators,
\* constants and conversions
Assignments(r) ==
    {sDefine(r), sAssign(r), sDefineRead(r), sMixed(r),
     AssignStmt(<<D("_", r), V("x", r), D("z", r), V("y", r)>>, ":=",
                <<Lit(1), Lit(2), Lit(3), Lit(4)>>),
     AssignStmt(<<NewIdent("_")>>, "=", <<V("y", r)>>),
     AssignStmt(<<V("x", r), V("y", r)>>, "=", <<V("y", r), V("x", r)>>),
     AssignStmt(<<Field("s", "f", r), Field("q", "g", r)>>, "=", <<Lit(1), Lit(2)>>),
     AssignStmt(<<StarExpr(V("p", r))>>, "=", <<V("x", r)>>),
     AssignStmt(<<StarExpr(StarExpr(V("pp", r)))>>, "=", <<Lit(200)>>),
     AssignStmt(<<ParenExpr(StarExpr(V("p", r)))>>, "=", <<Lit(1)>>),
     AssignStmt(<<Field("s", "f", r)>>, "=", <<Lit(1)>>),
     AssignStmt(<<IndexExpr(V("arr", r), V("i", r))>>, "=", <<Lit(5)>>),
     AssignStmt(<<IndexExpr(V("arr", r), Lit(0))>>, "=", <<Lit(10)>>),
     AssignStmt(<<IndexExpr(V("arr", r), V("i", r)), V("x", r)>>, "=", <<V("x", r), Lit(0)>>),
     AssignStmt(<<IndexExpr(V("m", r), Lit(2))>>, "=", <<Lit(20)>>),
     AssignStmt(<<V("x", r)>>, "=", <<IndexExpr(V("m", r), Lit(1))>>),
     AssignStmt(<<V("x", r)>>, "=", <<IndexExpr(V("arr", r), V("i", r))>>),
     AssignStmt(<<V("x", r)>>, "+=", <<V("y", r)>>),
     AssignStmt(<<Field("s", "f", r)>>, "+=", <<Lit(1)>>),
     AssignStmt(<<IndexExpr(V("m", r), Lit(1))>>, "+=", <<Lit(1)>>),
     AssignStmt(<<V("p", r)>>, "=", <<V("nil", r)>>),
     AssignStmt(<<V("d", r)>>, "=", <<Field("time", "Millisecond", r)>>),
     AssignStmt(<<Field("time", "Local", r)>>, "=", <<V("x", r)>>),
     AssignStmt(<<D("d", r)>>, ":=", <<CallExpr(Field("time", "Duration", r), <<V("x", r)>>)>>)}

\* increments, calls, sends, returns and declarations
Simple(r) ==
    {sInc(r), sVarDecl(r),
     IncDecStmt(IndexExpr(V("m", r), Lit(1)), "++"),
     IncDecStmt(IndexExpr(V("arr", r), V("i", r)), "--"),
     ExprStmt(CallExpr(Field("time", "Sleep", r),
                       <<BinaryExpr(Lit(5), "*", Field("time", "Millisecond", r))>>)),
     ExprStmt(CallExpr(Field("fmt", "Println", r), <<V("x", r)>>)),
     ExprStmt(CallExpr(V("worker", r), <<V("x", r), V("y", r)>>)),
     ExprStmt(CallExpr(Field("s", "Run", r), <<>>)),
     SendStmt(V("ch", r), V("x", r)),
     ReturnStmt(<<V("x", r)>>)}

\* if y := 10; x > 5 { x++ }
sIfInit(r) == IfStmt(AssignStmt(<<D("y", r)>>, ":=", <<Lit(10)>>),
                     BinaryExpr(V("x", r), ">", Lit(5)), <<sInc(r)>>, NilNode)

\* if and switch, with and without an init statement
Branches(r) ==
    {sIfInit(r),
     IfStmt(NilNode, BinaryExpr(V("x", r), ">", Lit(5)), <<sAssign(r)>>, NilNode),
     IfStmt(NilNode, V("ok", r), <<>>,
            IfStmt(AssignStmt(<<D("y", r)>>, ":=", <<Lit(1)>>),
                   BinaryExpr(V("y", r), ">", Lit(0)), <<sInc(r)>>, NilNode)),
     SwitchStmt(NilNode, V("x", r), <<CaseClause(<<Lit(1)>>, <<sInc(r)>>)>>),
     SwitchStmt(AssignStmt(<<D("y", r)>>, ":=", <<V("x", r)>>), V("y", r),
                <<CaseClause(<<Lit(1)>>, <<sInc(r)>>)>>)}

\* for i := 0; i < n; i++ { body }
Counted(n, body, r) ==
    ForStmt(AssignStmt(<<D("i", r)>>, ":=", <<Lit(0)>>), BinaryExpr(V("i", r), "<", Lit(n)),
            IncDecStmt(V("i", r), "++"), body)

\* if i == 1 { branch }
SkipOne(branch, r) ==
    IfStmt(NilNode, BinaryExpr(V("i", r), "==", Lit(1)), <<BranchStmt(branch)>>, NilNode)

\* for x < n; x++ { }
sForPost(n, r) == ForStmt(NilNode, BinaryExpr(V("x", r), "<", Lit(n)), sInc(r), <<>>)

\* for and range loops: every mix of clauses, nested, with continue
Loops(r) ==
    {Counted(10, <<sInc(r)>>, r),
     sForPost(10, r),
     ForStmt(AssignStmt(<<D("i", r)>>, ":=", <<Lit(0)>>), BinaryExpr(V("i", r), "<", Lit(10)),
             NilNode, <<IncDecStmt(V("i", r), "++")>>),
     ForStmt(NilNode, BinaryExpr(V("x", r), "<", Lit(100)), NilNode, <<sInc(r)>>),
     ForStmt(NilNode, NilNode, NilNode, <<sInc(r), BranchStmt("break")>>),
     Counted(10, <<sIfInit(r), sForPost(10, r)>>, r),
     Counted(10, <<SkipOne("continue", r), sInc(r)>>, r),
     RangeStmt(D("k", r), D("v", r), ":=", V("arr", r),
               <<AssignStmt(<<V("x", r)>>, "=", <<V("v", r)>>)>>),
     RangeStmt(V("k", r), NilNode, "=", V("arr", r), <<>>)}

\* statements in a slot that is no list: under a label
Labeled(r) ==
    {LabeledStmt("L", sMixed(r)), LabeledStmt("L", Counted(10, <<sInc(r)>>, r)),
     LabeledStmt("L", sIfInit(r)),
     LabeledStmt("L", GoStmt(CallExpr(V("worker", r), <<V("x", r)>>)))}

\* the expressions a go statement passes
GoArgs(r) == {V("x", r), V("y", r), Field("s", "f", r), Lit(1)}

RECURSIVE SeqsUpTo(_, _)
\* the sequences over S of length at most n
SeqsUpTo(S, n) ==
    IF n = 0
    THEN {<<>>}
    ELSE LET shorter == SeqsUpTo(S, n - 1)
         IN  shorter \cup {Append(q, x) : q \in shorter, x \in S}

\* go statements: a call with up to MaxArgs arguments, a function literal, a go under a
\* go, a method value, and a go under a label with a go in its function literal and one
\* in an argument
GoStmts(r) ==
    {GoStmt(CallExpr(V("worker", r), args)) : args \in SeqsUpTo(GoArgs(r), MaxArgs)}
    \cup {GoStmt(CallExpr(FuncLit(<<sAssign(r)>>), <<>>)),
          GoStmt(CallExpr(FuncLit(<<GoStmt(CallExpr(V("worker", r), <<V("y", r)>>))>>), <<>>)),
          GoStmt(CallExpr(Field("s", "Run", r), <<V("x", r)>>)),
          LabeledStmt("L", GoStmt(CallExpr(
              FuncLit(<<GoStmt(CallExpr(V("worker", r), <<V("y", r)>>))>>),
              <<FuncLit(<<GoStmt(CallExpr(V("worker", r), <<V("x", r)>>))>>)>>)))}

Stmts(r) ==
    Assignments(r) \cup Simple(r) \cup Branches(r) \cup Loops(r) \cup Labeled(r)
    \cup GoStmts(r)

\* function bodies: one statement, or the two-statement bodies of the tests;
\* in the latter the checker may have stopped between the two
Bodies(r) ==
    {<<s>> : s \in Stmts(r)}
    \cup {<<>>, <<sDefine(TRUE), sAssign(r)>>, <<sDefine(TRUE), sMixed(r)>>,
          <<sDefine(r), sDefineRead(r)>>}

ImportLists == {<<ImportSpec("", "fmt")>>, <<ImportSpec("", "fmt"), ImportSpec("", "unsafe")>>}

\* a file of package pkg with one function fn; nameRes: the checker recorded fn
OneFunc(pkg, fn, nameRes, imports, body) ==
    File(pkg, imports, <<FuncDecl(Ident(fn, TRUE, nameRes), FALSE, TRUE, body)>>)

\* the files a caller may hand in, with what the type checker made of them:
\* all resolved, the bodies not reached, or nothing at all; and files of package main
\* and of another package with main after another function, after a method main, as a
\* method only, without body and spelled Main
Files ==
    {OneFunc(pf[1], pf[2], TRUE, imps, b) :
        pf \in {<<"main", "main">>, <<"lib", "run">>}, imps \in ImportLists,
        b \in Bodies(TRUE) \cup Bodies(FALSE)}
    \cup {OneFunc("lib", "run", FALSE, imps, <<st>>) : imps \in ImportLists, st \in Stmts(FALSE)}
    \cup {File("main", <<>>, <<FuncDecl(Ident("helper", TRUE, TRUE), FALSE, TRUE, <<sAssign(TRUE)>>),
                               FuncDecl(Ident("main", TRUE, TRUE), FALSE, TRUE, <<sInc(TRUE)>>)>>),
          File("main", <<>>, <<FuncDecl(Ident("main", TRUE, TRUE), TRUE, TRUE, <<sAssign(TRUE)>>),
                               FuncDecl(Ident("main", TRUE, TRUE), FALSE, TRUE, <<sInc(TRUE)>>)>>),
          File("main", <<>>, <<FuncDecl(Ident("main", TRUE, TRUE), TRUE, TRUE, <<>>)>>),
          File("main", <<>>, <<FuncDecl(Ident("main", TRUE, TRUE), FALSE, FALSE, <<>>)>>),
          File("main", <<>>, <<FuncDecl(Ident("Main", TRUE, TRUE), FALSE, TRUE, <<>>)>>),
          OneFunc("lib", "main", TRUE, <<>>, <<>>),
          OneFunc("lib", "main", TRUE, <<>>, <<sInc(TRUE)>>)}

\* the files of the multi-file units
UnitFiles ==
    {OneFunc("main", "main", TRUE, <<>>, <<sAssign(TRUE)>>),
     OneFunc("main", "run", TRUE, <<>>, <<sVarDecl(TRUE)>>),
     OneFunc("lib", "run", TRUE, <<ImportSpec("", "unsafe")>>, <<sInc(TRUE)>>),
     OneFunc("main", "run", TRUE, <<>>, <<Counted(10, <<sInc(TRUE)>>, TRUE)>>),
     File("lib", <<>>, <<FuncDecl(Ident("main", TRUE, TRUE), TRUE, TRUE, <<>>),
                         FuncDecl(Ident("ext", TRUE, TRUE), FALSE, FALSE, <<>>)>>)}

Units == SeqsUpTo(UnitFiles, MaxFiles) \ {<<>>}

-----------------------------------------------------------------------------
(* Configurations a caller hands to NewInstrumenter. A field the caller    *)
(* does not set holds Go's zero value, the empty string or the empty map.  *)

\* the Config of the README (custom alias and names, one import rewrite), that of
\* TestCustomRuntimeAlias, that of TestCustomConfig (only the runtime path is set), nil,
\* the default, and the default with rewrites that chain (a -> b, b -> c) or form a cycle
Configs ==
    LET readme    == [ImportRewrites     |-> {<<"sync", "mypackage/runtime/sync">>},
                      BaseRuntimeAddress |-> "mypackage/runtime",
                      RuntimeAlias       |-> "myrt",
                      MemReadFunc        |-> "TrackRead",
                      MemWriteFunc       |-> "TrackWrite",
                      SpawnFunc          |-> "",
                      GoroutineEnterFunc |-> "",
                      GoroutineExitFunc  |-> ""]
        aliasTest == [readme EXCEPT !.ImportRewrites = {},
                                    !.BaseRuntimeAddress = "custom/runtime",
                                    !.RuntimeAlias = "myCustomAlias",
                                    !.MemReadFunc = "Read", !.MemWriteFunc = "Write"]
        pathOnly  == [aliasTest EXCEPT !.RuntimeAlias = "", !.MemReadFunc = "",
                                       !.MemWriteFunc = ""]
        chained   == {<<"sync", "mypackage/runtime/sync">>,
                      <<"mypackage/runtime/sync", "mypackage/v2/sync">>}
        cyclic    == {<<"sync", "mypackage/runtime/sync">>,
                      <<"mypackage/runtime/sync", "sync">>}
    IN  {NilConfig, DefaultConfig, readme, aliasTest, pathOnly,
         [DefaultConfig EXCEPT !.ImportRewrites = chained],
         [DefaultConfig EXCEPT !.ImportRewrites = cyclic]}

\* files for the configured runs: imports that the rewrites name, a store, a go
\* statement, a main function
CfgFiles ==
    {OneFunc("main", "main", TRUE, <<ImportSpec("", "sync")>>, <<sAssign(TRUE)>>),
     OneFunc("lib", "run", TRUE, <<ImportSpec("", "fmt"), ImportSpec("", "sync")>>,
             <<GoStmt(CallExpr(V("worker", TRUE), <<V("x", TRUE)>>))>>),
     OneFunc("lib", "run", TRUE, <<ImportSpec("", "mypackage/runtime/sync")>>,
             <<sVarDecl(TRUE)>>)}

-----------------------------------------------------------------------------
(* Reading the output: the calls of the runtime that a tree holds          *)

\* the statement is ALIAS.fn(...), a call of the injected runtime
IsHook(s, alias) ==
    /\ s.k = "ExprStmt"
    /\ s.X.k = "Call"
    /\ s.X.Fun.k = "Selector"
    /\ s.X.Fun.X.k = "Ident"
    /\ s.X.Fun.X.name = alias

\* the runtime function a hook statement calls
HookFn(s) == s.X.Fun.Sel.name

\* LOC of ALIAS.fn(unsafe.Pointer(&LOC))
HookArg(s) == s.X.Args[1].Args[1].X

RECURSIVE HooksE(_, _)
RECURSIVE HooksS(_, _)

\* the hook statements under each of the nodes
HooksEs(es, alias) == UNION {HooksE(es[i], alias) : i \in 1..Len(es)}
HooksL(list, alias) == UNION {HooksS(list[i], alias) : i \in 1..Len(list)}

HooksE(e, alias) ==
    CASE e.k = "FuncLit" -> HooksL(e.Body, alias)
      [] e.k = "Call"    -> HooksE(e.Fun, alias) \cup HooksEs(e.Args, alias)
      [] e.k \in {"Paren", "Unary", "Star", "Selector"} -> HooksE(e.X, alias)
      [] OTHER -> {}

\* the hook statements in and under a statement
HooksS(s, alias) ==
    CASE IsHook(s, alias)  -> {s} \cup HooksE(s.X, alias)
      [] s.k = "Assign"    -> HooksEs(s.Rhs, alias)
      [] s.k = "ExprStmt"  -> HooksE(s.X, alias)
      [] s.k = "Go"        -> HooksE(s.Call, alias)
      [] s.k = "Block"     -> HooksL(s.List, alias)
      [] s.k = "Labeled"   -> HooksS(s.Stmt, alias)
      [] s.k = "If"        -> HooksS(s.Init, alias) \cup HooksL(s.Body, alias)
                              \cup HooksS(s.Else, alias)
      [] s.k = "For"       -> HooksS(s.Init, alias) \cup HooksS(s.Post, alias)
                              \cup HooksL(s.Body, alias)
      [] s.k \in {"Range", "Case", "FuncDecl"} -> HooksL(s.Body, alias)
      [] s.k = "Switch"    -> HooksS(s.Init, alias) \cup HooksL(s.Body, alias)
      [] OTHER -> {}

\* the hook statements of a file
HooksIn(f) == HooksL(f.Decls, config.RuntimeAlias)

-----------------------------------------------------------------------------
(* The Instrumenter as a state machine                                     *)

\* the receiver seen by the callbacks
Instr == [config |-> config, typeInfo |-> typeInfo]

\* the loop state while no loop is being run
NoLoop == [on |-> FALSE]

\* the launch state while no go statement is being run
NoLaunch == [on |-> FALSE]

\* the runtime state while no instrumented program is running
NoRt == [on |-> FALSE]

Init ==
    /\ config = NewInstrumenter(DefaultConfig)
    /\ typeInfo = "nil"
    /\ instrumented = FALSE
    /\ anyInstrumented = FALSE
    /\ files = <<>>
    /\ orig = <<>>
    /\ cur = 0
    /\ pc = "idle"
    /\ lastHooked = FALSE
    /\ ncalls = 0
    /\ cursorLog = <<>>
    /\ loop = NoLoop
    /\ err = "nil"
    /\ given = DefaultConfig
    /\ launch = NoLaunch
    /\ rt = NoRt

\* the common part of InstrumentAST and InstrumentASTs: type check, then the files in turn
Begin(unit) ==
    /\ pc = "idle"
    /\ ncalls < MaxCalls
    /\ typeInfo' = typeCheck(unit)
    /\ files' = unit
    /\ orig' = unit
    /\ cur' = 1
    /\ pc' = "file"
    /\ UNCHANGED <<config, instrumented, lastHooked, ncalls, cursorLog, loop, err, given,
                   launch, rt>>

\* parser.ParseFile failed: the error is returned and nothing else happens
ParseFailed ==
    /\ pc = "idle"
    /\ ncalls < MaxCalls
    /\ lastHooked' = FALSE
    /\ ncalls' = ncalls + 1
    /\ err' = "parse"
    /\ UNCHANGED <<config, typeInfo, instrumented, anyInstrumented, files, orig, cur, pc,
                   cursorLog, loop, given,
                   launch, rt>>

InstrumentASTs ==
    \E unit \in Units :
        /\ Begin(unit)
        /\ anyInstrumented' = FALSE

InstrumentAST ==
    \E f \in Files :
        /\ Begin(<<f>>)
        /\ UNCHANGED anyInstrumented

InstrumentFile ==
    \/ ParseFailed
    \/ \E f \in Files :
        /\ Begin(<<f>>)
        /\ UNCHANGED anyInstrumented

InstrumentFiles ==
    \/ ParseFailed
    \/ \E unit \in Units :
        /\ Begin(unit)
        /\ anyInstrumented' = FALSE

\* the orders in which a range over the ImportRewrites map may yield its entries
Orders(m) == {o \in SeqsUpTo(m, Cardinality(m)) :
                Len(o) = Cardinality(m) /\ \A e \in m : \E i \in 1..Len(o) : o[i] = e}

\* instrumentSingleAST: import rewrites, then the flag reset
StepRewrite ==
    /\ pc = "file"
    /\ \E o \in Orders(config.ImportRewrites) :
         files' = [files EXCEPT ![cur].Imports = RewriteImports(files[cur].Imports, o)]
    /\ instrumented' = FALSE
    /\ cursorLog' = <<>>
    /\ pc' = "lower"
    /\ UNCHANGED <<config, typeInfo, anyInstrumented, orig, cur, lastHooked, ncalls,
                   loop, err, given,
                   launch, rt>>

\* one astutil.Apply walk over the current file
Walked(a) ==
    /\ files' = [files EXCEPT ![cur] = a.val]
    /\ instrumented' = (instrumented \/ a.made)
    /\ cursorLog' = a.log

Walk(pass, to) ==
    /\ Walked(Apply(pass, Instr, files[cur]))
    /\ pc' = to
    /\ UNCHANGED <<config, typeInfo, anyInstrumented, orig, cur, lastHooked, ncalls,
                   loop, err, given,
                   launch, rt>>

\* Pass 0: lowering
StepLower ==
    /\ pc = "lower"
    /\ Walk("lower", "mem")

\* Pass 1: memory hooks
StepMem ==
    /\ pc = "mem"
    /\ Walk("mem", "go")

\* Pass 2: go statements
StepGo ==
    /\ pc = "go"
    /\ Walk("go", "main")

\* third pass: the main function
StepMain ==
    /\ pc = "main"
    /\ LET a == instrumentMainFunction(Instr, files[cur])
       IN  /\ files' = [files EXCEPT ![cur] = a.file]
           /\ instrumented' = (instrumented \/ a.made)
    /\ pc' = "imports"
    /\ UNCHANGED <<config, typeInfo, anyInstrumented, orig, cur, lastHooked, ncalls, cursorLog,
                   loop, err, given,
                   launch, rt>>

\* import finalization; then the next file of the unit, or the return
StepImports ==
    /\ pc = "imports"
    /\ files' = [files EXCEPT ![cur] = finalizeImports(Instr, files[cur], instrumented)]
    /\ anyInstrumented' = (anyInstrumented \/ instrumented)
    /\ pc' = "filedone"
    /\ UNCHANGED <<config, typeInfo, instrumented, orig, cur, lastHooked, ncalls, cursorLog,
                   loop, err, given,
                   launch, rt>>

\* a loop over the files that goes on to the next file before the imports are finalized
NextFileBeforeImports ==
    /\ pc = "imports"
    /\ cur < Len(files)
    /\ cur' = cur + 1
    /\ pc' = "file"
    /\ UNCHANGED <<config, typeInfo, instrumented, anyInstrumented, files, orig,
                   lastHooked, ncalls, cursorLog, loop, err, given,
                   launch, rt>>

NextFile ==
    /\ pc = "filedone"
    /\ cur < Len(files)
    /\ cur' = cur + 1
    /\ pc' = "file"
    /\ UNCHANGED <<config, typeInfo, instrumented, anyInstrumented, files, orig,
                   lastHooked, ncalls, cursorLog, loop, err, given,
                   launch, rt>>

\* the call returns the files to its caller; the Instrumenter keeps none of them
Return ==
    /\ pc = "filedone"
    /\ cur = Len(files)
    /\ pc' = "idle"
    /\ ncalls' = ncalls + 1
    /\ lastHooked' = (\E i \in 1..Len(files) : HooksIn(files[i]) # {})
    /\ files' = <<>>
    /\ orig' = <<>>
    /\ cur' = 0
    /\ cursorLog' = <<>>
    /\ err' = "nil"
    /\ UNCHANGED <<config, typeInfo, instrumented, anyInstrumented, loop, given,
                   launch, rt>>

\* WasInstrumented()
WasInstrumented == anyInstrumented

Next ==
    \/ InstrumentASTs
    \/ InstrumentAST
    \/ InstrumentFile
    \/ InstrumentFiles
    \/ StepRewrite
    \/ StepLower
    \/ StepMem
    \/ StepGo
    \/ StepMain
    \/ StepImports
    \/ NextFile
    \/ Return

Spec == Init /\ [][Next]_vars

-----------------------------------------------------------------------------
(* The Instrumenter built from a configuration of the caller's             *)

\* before NewInstrumenter: the caller holds a Config
InitCfg ==
    /\ given \in Configs
    /\ config = given
    /\ launch = NoLaunch
    /\ rt = NoRt
    /\ typeInfo = "nil"
    /\ instrumented = FALSE
    /\ anyInstrumented = FALSE
    /\ files = <<>>
    /\ orig = <<>>
    /\ cur = 0
    /\ pc = "new"
    /\ lastHooked = FALSE
    /\ ncalls = 0
    /\ cursorLog = <<>>
    /\ loop = NoLoop
    /\ err = "nil"

\* instr := NewInstrumenter(config)
NewInstrumenterCall ==
    /\ pc = "new"
    /\ config' = NewInstrumenter(given)
    /\ pc' = "idle"
    /\ UNCHANGED <<typeInfo, instrumented, anyInstrumented, files, orig, cur, lastHooked,
                   ncalls, cursorLog, loop, err, given,
                   launch, rt>>

\* InstrumentASTs on the files of the configured runs
InstrumentASTsCfg ==
    \E unit \in SeqsUpTo(CfgFiles, MaxFiles) \ {<<>>} :
        /\ Begin(unit)
        /\ anyInstrumented' = FALSE

NextCfg ==
    \/ NewInstrumenterCall
    \/ InstrumentASTsCfg
    \/ StepRewrite
    \/ StepLower
    \/ StepMem
    \/ StepGo
    \/ StepMain
    \/ StepImports
    \/ NextFile
    \/ Return

SpecCfg == InitCfg /\ [][NextCfg]_vars

-----------------------------------------------------------------------------
(* Running a loop, its lowering and its instrumented form side by side.    *)
(* A hook call does not touch the variables of the loop, so a run is the   *)
(* statements, conditions and hook calls executed, in order, over the      *)
(* integer variables of the loop.                                          *)

\* the value of an expression
RECURSIVE Eval(_, _)
Eval(e, store) ==
    CASE e.k = "BasicLit" -> e.value
      [] e.k = "Ident"    -> store[e.name]
      [] e.k = "Paren"    -> Eval(e.X, store)
      [] e.k = "Binary" /\ e.Op = "+"  -> Eval(e.X, store) + Eval(e.Y, store)
      [] e.k = "Binary" /\ e.Op = "<"  -> Eval(e.X, store) < Eval(e.Y, store)
      [] e.k = "Binary" /\ e.Op = ">"  -> Eval(e.X, store) > Eval(e.Y, store)
      [] e.k = "Binary" /\ e.Op = "==" -> Eval(e.X, store) = Eval(e.Y, store)

\* what is left to do of a loop: evaluate COND (test), or run POST and then COND (next)
LoopTest(F) == [k |-> "test", F |-> F]
LoopNext(F) == [k |-> "next", F |-> F]

Opt(s) == IF s = NilNode THEN <<>> ELSE <<s>>

RECURSIVE ToLoopNext(_)
\* the rest of the work from the innermost enclosing loop's POST on
ToLoopNext(todo) ==
    IF todo = <<>> \/ Head(todo).k = "next" THEN todo ELSE ToLoopNext(Tail(todo))

\* a program about to run
Machine(todo) ==
    [todo |-> todo, store |-> [n \in {"i", "x", "y"} |-> 0], trace |-> <<>>]

\* one step of a run: the first piece of work is executed or unfolded
Exec(m) ==
    LET h    == Head(m.todo)
        rest == Tail(m.todo)
    IN  CASE h.k = "Assign" ->
                [todo  |-> rest,
                 store |-> [m.store EXCEPT ![h.Lhs[1].name] = Eval(h.Rhs[1], m.store)],
                 trace |-> Append(m.trace, h)]
          [] h.k = "IncDec" ->
                [todo  |-> rest,
                 store |-> [m.store EXCEPT ![h.X.name] = IF h.Tok = "++" THEN @ + 1 ELSE @ - 1],
                 trace |-> Append(m.trace, h)]
          [] h.k = "ExprStmt" -> [m EXCEPT !.todo = rest, !.trace = Append(m.trace, h)]
          [] h.k = "Block" -> [m EXCEPT !.todo = h.List \o rest]
          [] h.k = "If" ->
                IF h.Init # NilNode
                THEN [m EXCEPT !.todo = <<h.Init, [h EXCEPT !.Init = NilNode]>> \o rest]
                ELSE [m EXCEPT !.todo = (IF Eval(h.Cond, m.store) THEN h.Body ELSE Opt(h.Else))
                                        \o rest,
                               !.trace = Append(m.trace, h.Cond)]
          [] h.k = "For" -> [m EXCEPT !.todo = Opt(h.Init) \o <<LoopTest(h)>> \o rest]
          [] h.k = "test" ->
                IF h.F.Cond = NilNode
                THEN [m EXCEPT !.todo = h.F.Body \o <<LoopNext(h.F)>> \o rest]
                ELSE [m EXCEPT !.todo = IF Eval(h.F.Cond, m.store)
                                        THEN h.F.Body \o <<LoopNext(h.F)>> \o rest
                                        ELSE rest,
                               !.trace = Append(m.trace, h.F.Cond)]
          [] h.k = "next" -> [m EXCEPT !.todo = Opt(h.F.Post) \o <<LoopTest(h.F)>> \o rest]
          [] h.k = "Branch" ->
                [m EXCEPT !.todo = IF h.Tok = "continue"
                                   THEN ToLoopNext(rest)
                                   ELSE Tail(ToLoopNext(rest)),
                          !.trace = Append(m.trace, h)]

\* the run can take a step
Running(m) == m.todo # <<>> /\ Len(m.trace) < MaxSteps

\* the loops that are run: counted loops whose body falls through, continues, breaks,
\* or holds an if with init and a loop of its own
LoopPrograms ==
    {Counted(MaxIter, body, TRUE) :
        body \in {<<sInc(TRUE)>>,
                  <<SkipOne("continue", TRUE), sInc(TRUE)>>,
                  <<SkipOne("break", TRUE), sInc(TRUE)>>,
                  <<sIfInit(TRUE), sForPost(MaxIter, TRUE)>>}}
    \cup {sForPost(MaxIter, TRUE),
          ForStmt(NilNode, BinaryExpr(V("x", TRUE), "<", Lit(MaxIter)), sInc(TRUE),
                  <<IfStmt(NilNode, BinaryExpr(V("x", TRUE), "==", Lit(1)),
                           <<sInc(TRUE), BranchStmt("continue")>>, NilNode)>>)}

\* Pass 0 on a statement list
Lowered(list) ==
    ApplyNode("lower", [config |-> NewInstrumenter(DefaultConfig), typeInfo |-> "info"],
              BlockStmt(list), FALSE, FALSE).val.List

\* Pass 0 and then Pass 1 on a statement list
Instrumented(list) ==
    ApplyNode("mem", [config |-> NewInstrumenter(DefaultConfig), typeInfo |-> "info"],
              BlockStmt(Lowered(list)), FALSE, FALSE).val.List

LoopInit ==
    /\ config = NewInstrumenter(DefaultConfig)
    /\ typeInfo = "nil"
    /\ instrumented = FALSE
    /\ anyInstrumented = FALSE
    /\ files = <<>>
    /\ orig = <<>>
    /\ cur = 0
    /\ pc = "idle"
    /\ lastHooked = FALSE
    /\ ncalls = 0
    /\ cursorLog = <<>>
    /\ err = "nil"
    /\ given = DefaultConfig
    /\ launch = NoLaunch
    /\ rt = NoRt
    /\ loop \in {[on |-> TRUE, F |-> F, a |-> Machine(<<F>>), b |-> Machine(Lowered(<<F>>)),
                   c |-> Machine(Instrumented(<<F>>))] : F \in LoopPrograms}

\* a step of the original loop
RunOriginal ==
    /\ loop.on
    /\ Running(loop.a)
    /\ loop' = [loop EXCEPT !.a = Exec(loop.a)]
    /\ UNCHANGED <<config, typeInfo, instrumented, anyInstrumented, files, orig, cur, pc,
                   lastHooked, ncalls, cursorLog, err, given,
                   launch, rt>>

\* a step of the lowered loop
RunLowered ==
    /\ loop.on
    /\ Running(loop.b)
    /\ loop' = [loop EXCEPT !.b = Exec(loop.b)]
    /\ UNCHANGED <<config, typeInfo, instrumented, anyInstrumented, files, orig, cur, pc,
                   lastHooked, ncalls, cursorLog, err, given,
                   launch, rt>>

\* a step of the instrumented loop
RunInstrumented ==
    /\ loop.on
    /\ Running(loop.c)
    /\ loop' = [loop EXCEPT !.c = Exec(loop.c)]
    /\ UNCHANGED <<config, typeInfo, instrumented, anyInstrumented, files, orig, cur, pc,
                   lastHooked, ncalls, cursorLog, err, given,
                   launch, rt>>

LoopStep == RunOriginal \/ RunLowered \/ RunInstrumented

SpecLoop == LoopInit /\ [][LoopStep]_vars

-----------------------------------------------------------------------------
(* Running a go statement and its rewriting, with every hook a no-op. The  *)
(* launching task runs `G; A` (a go statement, then an assignment); the    *)
(* tasks it starts run interleaved with it and share its variables.        *)

RECURSIVE Value(_, _)
\* the value of an expression: a variable's current value, a literal, a declared
\* function (its name), a method value (its receiver's value and the method's name)
Value(e, env) ==
    CASE e.k = "Ident"    -> IF e.name \in DOMAIN env THEN env[e.name] ELSE e.name
      [] e.k = "BasicLit" -> e.value
      [] e.k = "Selector" -> <<Value(e.X, env), e.Sel.name>>
      [] e.k = "Paren"    -> Value(e.X, env)
      [] OTHER -> "func"

\* the function and the arguments a call evaluates to
CallValue(call, env) ==
    [fn |-> Value(call.Fun, env), args |-> [i \in 1..Len(call.Args) |-> Value(call.Args[i], env)]]

\* name = value, or name := value
Bind(env, name, value) ==
    [n \in DOMAIN env \cup {name} |-> IF n = name THEN value ELSE env[n]]

\* runtime.Spawn(f): with no-op hooks, `go f()`: a task that runs the body of f
IsSpawnCall(st) == IsHook(st, config.RuntimeAlias) /\ HookFn(st) = config.SpawnFunc

\* the go statements run: a function variable, a method value, a declared function
LaunchStmts ==
    {GoStmt(CallExpr(V("fv", TRUE), <<V("x", TRUE)>>)),
     GoStmt(CallExpr(V("fv", TRUE), <<>>)),
     GoStmt(CallExpr(Field("s", "Run", TRUE), <<V("x", TRUE)>>)),
     GoStmt(CallExpr(V("worker", TRUE), <<V("x", TRUE), V("y", TRUE)>>))}

\* what the launching task does next: fv = g;  s = t;  x = 2
LaunchAfter ==
    {AssignStmt(<<V("fv", TRUE)>>, "=", <<V("g", TRUE)>>),
     AssignStmt(<<V("s", TRUE)>>, "=", <<V("t", TRUE)>>),
     AssignStmt(<<V("x", TRUE)>>, "=", <<Lit(2)>>)}

\* the state of a run: what is left to do for the launching task, the variables, the
\* tasks started (what is left to do for each), what each go statement evaluated to
\* when the launching task came to it (atGo, history), and the calls the tasks made
LaunchOf(rewritten, G, A) ==
    [on |-> TRUE, rewritten |-> rewritten, G |-> G,
     todo |-> <<IF rewritten THEN instrumentGoStmt(Instr, G, TRUE).node ELSE G, A>>,
     env |-> [fv |-> "f", s |-> "a", x |-> 1, y |-> 1],
     tasks |-> <<>>, atGo |-> <<>>, calls |-> <<>>]

LaunchInit ==
    /\ config = NewInstrumenter(DefaultConfig)
    /\ typeInfo = "info"
    /\ instrumented = FALSE
    /\ anyInstrumented = FALSE
    /\ files = <<>>
    /\ orig = <<>>
    /\ cur = 0
    /\ pc = "idle"
    /\ lastHooked = FALSE
    /\ ncalls = 0
    /\ cursorLog = <<>>
    /\ err = "nil"
    /\ given = DefaultConfig
    /\ loop = NoLoop
    /\ rt = NoRt
    /\ launch \in {LaunchOf(rewritten, G, A) :
                      rewritten \in BOOLEAN, G \in LaunchStmts, A \in LaunchAfter}

\* the launching task executes its next statement
LaunchStep ==
    /\ launch.on
    /\ launch.todo # <<>>
    /\ LET st   == Head(launch.todo)
           rest == Tail(launch.todo)
       IN  launch' =
             CASE st.k = "Go" ->
                    \* go f(args): f and args are evaluated here, the call runs in the task
                    [launch EXCEPT !.todo = rest,
                                   !.atGo = Append(@, CallValue(st.Call, launch.env)),
                                   !.tasks = Append(@, <<[k |-> "Bound",
                                                          call |-> CallValue(st.Call, launch.env)]>>)]
               [] st.k = "Block" ->
                    \* the block that stands where the go statement stood
                    [launch EXCEPT !.todo = st.List \o rest,
                                   !.atGo = Append(@, CallValue(launch.G.Call, launch.env))]
               [] st.k = "Assign" ->
                    [launch EXCEPT !.todo = rest,
                                   !.env = Bind(@, st.Lhs[1].name, Value(st.Rhs[1], launch.env))]
               [] st.k = "ExprStmt" /\ IsSpawnCall(st) ->
                    [launch EXCEPT !.todo = rest,
                                   !.tasks = Append(@, st.X.Args[1].Body)]
               [] OTHER -> [launch EXCEPT !.todo = rest]
    /\ UNCHANGED <<config, typeInfo, instrumented, anyInstrumented, files, orig, cur, pc,
                   lastHooked, ncalls, cursorLog, loop, err, given, rt>>

\* a started task executes its next statement: a call of the function it was started
\* with, a hook (nothing happens), or a call whose function and arguments it evaluates now
TaskStep ==
    /\ launch.on
    /\ \E i \in 1..Len(launch.tasks) :
          /\ launch.tasks[i] # <<>>
          /\ LET st == Head(launch.tasks[i])
             IN  launch' =
                   CASE st.k = "Bound" ->
                          [launch EXCEPT !.tasks[i] = Tail(@),
                                         !.calls = Append(@, [task |-> i, call |-> st.call])]
                     [] st.k = "ExprStmt" /\ ~IsHook(st, config.RuntimeAlias) ->
                          [launch EXCEPT !.tasks[i] = Tail(@),
                                         !.calls = Append(@, [task |-> i,
                                                              call |-> CallValue(st.X, launch.env)])]
                     [] OTHER -> [launch EXCEPT !.tasks[i] = Tail(@)]
    /\ UNCHANGED <<config, typeInfo, instrumented, anyInstrumented, files, orig, cur, pc,
                   lastHooked, ncalls, cursorLog, loop, err, given, rt>>

LaunchNext == LaunchStep \/ TaskStep

SpecLaunch == LaunchInit /\ [][LaunchNext]_vars

-----------------------------------------------------------------------------
(* The runtime: goroutines calling hooks, the scheduler loop, and the      *)
(* replay and record strategies. A hook call is scheduler.yield(e): the    *)
(* send on the unbuffered channel events, which completes when the loop    *)
(* receives, and then strategy.Wait(e).                                    *)

Event(goID, kind) == [GoID |-> goID, Kind |-> kind]

\* the hook calls of the goroutines of a program, in program order: goroutine 1 is main,
\* goroutine 2 is the one main's Spawn starts
RtPrograms ==
    {<< <<"enter", "spawn", "write", "exit">>, <<"enter", "read", "exit">> >>,
     << <<"enter", "spawn", "write", "exit">>, <<"enter", "write", "exit">> >>,
     << <<"enter", "write", "read", "exit">>, <<>> >>}

RECURSIVE Merges(_, _)
\* the interleavings of two sequences of events
Merges(a, b) ==
    IF a = <<>> THEN {b}
    ELSE IF b = <<>> THEN {a}
    ELSE {<<Head(a)>> \o m : m \in Merges(Tail(a), b)}
         \cup {<<Head(b)>> \o m : m \in Merges(a, Tail(b))}

\* the event sequences a run of the program can show: goroutine 2 starts after the spawn
RunsOf(prog) ==
    LET ev(g) == [j \in 1..Len(prog[g]) |-> Event(g, prog[g][j])]
        sp    == IF \E j \in 1..Len(prog[1]) : prog[1][j] = "spawn"
                 THEN CHOOSE j \in 1..Len(prog[1]) : prog[1][j] = "spawn"
                 ELSE Len(prog[1])
    IN  {SubSeq(ev(1), 1, sp) \o m : m \in Merges(SubSeq(ev(1), sp + 1, Len(prog[1])), ev(2))}

\* LoadTrace: the trace file holds a recorded run, or the first events of one
TracesOf(prog) == {SubSeq(t, 1, n) : t \in RunsOf(prog), n \in 0..(Len(prog[1]) + Len(prog[2]))}

\* the runtime after SetStrategy/Initialize: main is registered and running, the loop
\* waits for an event
RtOf(mode, prog, trace) ==
    [on |-> TRUE, mode |-> mode,
     trace |-> trace, idx |-> 0, backLog |-> {}, i |-> 0,
     registered |-> {1},
     gs |-> [g \in {1, 2} |-> [pc |-> IF g = 1 THEN "run" ELSE "unborn", todo |-> prog[g]]],
     loop |-> [pc |-> "recv"],
     received |-> <<>>, returned |-> <<>>, released |-> <<>>, atRelease |-> <<>>,
     finalized |-> FALSE, saved |-> <<>>, returnedAtFinalize |-> <<>>]

RtInit(mode) ==
    /\ config = NewInstrumenter(DefaultConfig)
    /\ typeInfo = "nil"
    /\ instrumented = FALSE
    /\ anyInstrumented = FALSE
    /\ files = <<>>
    /\ orig = <<>>
    /\ cur = 0
    /\ pc = "idle"
    /\ lastHooked = FALSE
    /\ ncalls = 0
    /\ cursorLog = <<>>
    /\ err = "nil"
    /\ given = DefaultConfig
    /\ loop = NoLoop
    /\ launch = NoLaunch
    /\ \E prog \in RtPrograms :
          \E trace \in IF mode = "replay" THEN TracesOf(prog) ELSE {<<>>} :
             rt = RtOf(mode, prog, trace)

RtStep(next) ==
    /\ rt' = next
    /\ UNCHANGED <<config, typeInfo, instrumented, anyInstrumented, files, orig, cur, pc,
                   lastHooked, ncalls, cursorLog, loop, err, given, launch>>

\* where a goroutine goes on when its hook call returns
AfterHook(kind) ==
    CASE kind = "spawn" -> "spawned"
      [] kind = "exit"  -> "exited"
      [] OTHER -> "run"

\* scheduler.yield under ReplayStrategy up to the block in Wait: the loop receives the
\* event, the goroutine waits on its channel
Yield ==
    /\ rt.on /\ rt.mode = "replay"
    /\ rt.loop.pc = "recv"
    /\ \E g \in {1, 2} :
          /\ rt.gs[g].pc = "run"
          /\ rt.gs[g].todo # <<>>
          /\ LET e == Event(g, Head(rt.gs[g].todo))
             IN  RtStep([rt EXCEPT !.gs[g] = [pc |-> "wait", todo |-> Tail(@.todo)],
                                   !.loop = [pc |-> "onevent", e |-> e],
                                   !.received = Append(@, e)])

\* ReplayStrategy.OnEvent up to the scan: past the end of the trace the event's goroutine
\* is unblocked right away, else the event goes to the backlog
OnEvent ==
    /\ rt.on /\ rt.mode = "replay"
    /\ rt.loop.pc = "onevent"
    /\ IF rt.idx >= Len(rt.trace)
       THEN RtStep([rt EXCEPT !.loop = [pc |-> "unblock", v |-> rt.loop.e, key |-> -1]])
       ELSE RtStep([rt EXCEPT !.backLog = @ \cup {[key |-> rt.i, ev |-> rt.loop.e]},
                              !.i = @ + 1,
                              !.loop = [pc |-> "scan"]])

\* expected.GoID == v.GoID && expected.Kind == v.Kind, and a test on the kind alone
MatchesKind(expected, v) == expected.Kind = v.Kind

Matches(expected, v) == expected.GoID = v.GoID /\ expected.Kind = v.Kind

\* one round of the loop `for s.idx < len(s.trace)`: an event of the backlog that matches
\* the expected entry (whichever the map iteration yields first) is taken; without one,
\* or at the end of the trace, OnEvent returns
Scan ==
    /\ rt.on /\ rt.mode = "replay"
    /\ rt.loop.pc = "scan"
    /\ IF rt.idx < Len(rt.trace) /\ \E b \in rt.backLog : Matches(rt.trace[rt.idx + 1], b.ev)
       THEN \E b \in rt.backLog :
               /\ Matches(rt.trace[rt.idx + 1], b.ev)
               /\ RtStep([rt EXCEPT !.idx = @ + 1,
                                     !.loop = [pc |-> "unblock", v |-> b.ev, key |-> b.key]])
       ELSE RtStep([rt EXCEPT !.loop = [pc |-> "recv"]])

\* unblock's send meets Wait's receive on the goroutine's channel: the hook call returns;
\* after it the scan deletes the event from the backlog and goes on
Unblock ==
    /\ rt.on /\ rt.mode = "replay"
    /\ rt.loop.pc = "unblock"
    /\ LET v == rt.loop.v
       IN  /\ v.GoID \in rt.registered
           /\ rt.gs[v.GoID].pc = "wait"
           /\ RtStep([rt EXCEPT !.gs[v.GoID].pc = AfterHook(v.Kind),
                                 !.released = Append(@, v),
                                 !.atRelease = Append(@, [idx |-> rt.idx, len |-> Len(rt.trace),
                                                          direct |-> rt.loop.key = -1]),
                                 !.returned = Append(@, v),
                                 !.backLog = {b \in @ : b.key # rt.loop.key},
                                 !.loop = [pc |-> IF rt.loop.key = -1 THEN "recv" ELSE "scan"]])

\* the rest of Spawn: the new goroutine is registered and started
SpawnChild ==
    /\ rt.on
    /\ rt.gs[1].pc = "spawned"
    /\ RtStep([rt EXCEPT !.registered = IF rt.mode = "replay" THEN @ \cup {2} ELSE @,
                          !.gs[1].pc = "run",
                          !.gs[2].pc = "run"])

\* the rest of GoroutineExit: the goroutine is unregistered
Unregister ==
    /\ rt.on
    /\ \E g \in {1, 2} :
          /\ rt.gs[g].pc = "exited"
          /\ RtStep([rt EXCEPT !.registered = @ \ {g},
                                !.gs[g].pc = "done"])

ReplayNext == Yield \/ OnEvent \/ Scan \/ Unblock \/ SpawnChild \/ Unregister

SpecReplay == RtInit("replay") /\ [][ReplayNext]_vars

\* the Go scheduler runs every goroutine that can take a step, the loop included
SpecReplayFair == SpecReplay /\ WF_vars(ReplayNext)

\* scheduler.yield under RecordStrategy: the loop receives the event; Wait does nothing,
\* so the hook call returns
YieldRecord ==
    /\ rt.on /\ rt.mode = "record"
    /\ rt.loop.pc = "recv"
    /\ \E g \in {1, 2} :
          /\ rt.gs[g].pc = "run"
          /\ rt.gs[g].todo # <<>>
          /\ LET e == Event(g, Head(rt.gs[g].todo))
             IN  RtStep([rt EXCEPT !.gs[g] = [pc |-> AfterHook(e.Kind), todo |-> Tail(@.todo)],
                                   !.loop = [pc |-> "onevent", e |-> e],
                                   !.received = Append(@, e),
                                   !.returned = Append(@, e)])

\* RecordStrategy.OnEvent: the loop appends the event to the trace
OnEventRecord ==
    /\ rt.on /\ rt.mode = "record"
    /\ rt.loop.pc = "onevent"
    /\ RtStep([rt EXCEPT !.trace = Append(@, rt.loop.e),
                          !.loop = [pc |-> "recv"]])

\* Finalize at the end of main, before or after main's GoroutineExit: OnFinalize saves
\* the trace as it is (read without the mutex, so as it is before or after an append of
\* the loop)
Finalize ==
    /\ rt.on /\ rt.mode = "record"
    /\ \/ rt.gs[1].pc = "done"
       \/ rt.gs[1].pc = "run" /\ rt.gs[1].todo = <<"exit">>
    /\ ~rt.finalized
    /\ RtStep([rt EXCEPT !.finalized = TRUE,
                          !.saved = rt.trace,
                          !.returnedAtFinalize = rt.returned])

RecordNext == YieldRecord \/ OnEventRecord \/ SpawnChild \/ Unregister \/ Finalize

SpecRecord == RtInit("record") /\ [][RecordNext]_vars

-----------------------------------------------------------------------------
(* Properties                                                              *)

\* the file being processed and the file as it was handed in
CurFile  == files[cur]
OrigFile == orig[cur]

\* the hook statements of the file being processed
Hooks == HooksIn(CurFile)

\* the callback runs of the last walk
Visits == {cursorLog[j] : j \in 1..Len(cursorLog)}

IsRead(s)  == IsHook(s, config.RuntimeAlias) /\ HookFn(s) = config.MemReadFunc
IsWrite(s) == IsHook(s, config.RuntimeAlias) /\ HookFn(s) = config.MemWriteFunc

\* among stmts there is a write hook on e
WriteHookOn(stmts, e) ==
    \E t \in 1..Len(stmts) : IsWrite(stmts[t]) /\ HookArg(stmts[t]) = e

HasImport(f, name, path) ==
    \E i \in 1..Len(f.Imports) : f.Imports[i] = ImportSpec(name, path)

HasBothImports(f) ==
    /\ HasImport(f, "", "unsafe")
    /\ HasImport(f, config.RuntimeAlias, config.BaseRuntimeAddress)

C2_NoMapElementOperand ==
    cur >= 1 =>
        \A h \in Hooks :
            (IsRead(h) \/ IsWrite(h)) => ~(HookArg(h).k = "Index" /\ IsMap(HookArg(h).X))

\* C3: whatever the type checker returned, the hooks inserted before a define hold no
\* write hook on a name that the define introduces
C3_NoWriteHookOnNewName ==
    pc = "go" =>
        \A v \in Visits :
            (v.stmt.k = "Assign" /\ v.stmt.Tok = ":=") =>
                \A i \in 1..Len(v.stmt.Lhs) :
                    (v.stmt.Lhs[i].k = "Ident" /\ v.stmt.Lhs[i].def) =>
                        ~WriteHookOn(v.before, v.stmt.Lhs[i])

\* the defines with several names on the left that the memory pass came to
MultiDefines ==
    {v \in Visits : v.stmt.k = "Assign" /\ v.stmt.Tok = ":=" /\ Len(v.stmt.Lhs) > 1
                    /\ \A i \in 1..Len(v.stmt.Lhs) : v.stmt.Lhs[i].k = "Ident"}

\* C4: with type information, before a define with several names on the left there is a
\* write hook for each non-blank name it re-assigns (no Defs entry) and for none that it
\* introduces
C4_WriteHooksForReassigned ==
    (pc = "go" /\ typeInfo # "nil") =>
        \A v \in MultiDefines :
            \A i \in 1..Len(v.stmt.Lhs) :
                LET id == v.stmt.Lhs[i]
                IN  /\ (~isBlankIdent(id) /\ ~Defs(id)) => WriteHookOn(v.before, id)
                    /\ (isBlankIdent(id) \/ id.def) => ~WriteHookOn(v.before, id)

\* C5: among the hooks inserted before a plain or compound assignment, every read hook
\* comes before every write hook
C5_ReadsBeforeWrites ==
    pc = "go" =>
        \A v \in Visits :
            (v.stmt.k = "Assign" /\ v.stmt.Tok # ":=") =>
                \A a, b \in 1..Len(v.before) :
                    (IsWrite(v.before[a]) /\ IsRead(v.before[b])) => b < a

\* the go statements the second pass came to
GoVisits == {v \in Visits : v.stmt.k = "Go"}

IsBinding(s) == s.k = "Assign" /\ s.Tok = ":="

\* the place in list of its i-th binding
BindingAt(list, i) ==
    CHOOSE j \in 1..Len(list) :
        IsBinding(list[j]) /\ Cardinality({t \in 1..j : IsBinding(list[t])}) = i

\* the statements of list between its (i-1)-th binding and its i-th
BeforeBinding(list, i) ==
    SubSeq(list, IF i = 1 THEN 1 ELSE BindingAt(list, i - 1) + 1, BindingAt(list, i) - 1)

IsPrefix(s, t) == Len(s) <= Len(t) /\ SubSeq(t, 1, Len(s)) = s

\* C7: the lowered loop performs the same sequence of BODY, POST and COND steps as the
\* original: of two runs side by side, one has always done a prefix of what the other did
C7_LoweredLoopSameSteps ==
    loop.on => IsPrefix(loop.a.trace, loop.b.trace) \/ IsPrefix(loop.b.trace, loop.a.trace)

\* C8: Pass 0 run again on the file that Pass 0 produced changes nothing
C8_LoweringIdempotent ==
    pc = "mem" => Apply("lower", Instr, CurFile).val = CurFile

\* Pass 0 rewrote a loop with INIT and POST whose body holds an if with init and a loop
C8_Witness ==
    /\ pc = "mem"
    /\ CurFile # OrigFile
    /\ \E v \in Visits :
          /\ v.inList
          /\ v.stmt.k = "For" /\ v.stmt.Init # NilNode /\ v.stmt.Post # NilNode
          /\ v.node.k = "Block"
          /\ \E i \in 1..Len(v.stmt.Body) : v.stmt.Body[i].k = "Block"

\* the operand is a package name, or P.n with P a package and n a constant, a package,
\* a type or nil
PackageOperand(e) ==
    \/ e.k = "Ident" /\ ObjKind(e.name) = "PkgName"
    \/ /\ e.k = "Selector"
       /\ e.X.k = "Ident"
       /\ ObjKind(e.X.name) = "PkgName"
       /\ ObjKind(e.Sel.name) \in {"Const", "PkgName", "TypeName", "Nil"}

\* C9: with type information, no hook of a processed file has as operand a package name
\* or a constant, package, type or nil selected from a package
C9_NoHookOnPackageNames ==
    (cur >= 1 /\ typeInfo # "nil") =>
        \A h \in Hooks : (IsRead(h) \/ IsWrite(h)) => ~PackageOperand(HookArg(h))

\* C10: between calls, WasInstrumented() tells whether a file of the most recent call
\* received a hook
C10_ReportsLastCall ==
    (pc = "idle" /\ ncalls > 0) => (WasInstrumented <=> lastHooked)

-----------------------------------------------------------------------------
(* Order of the passes over a unit                                         *)

\* the positions inside instrumentSingleAST, in program order
Positions == <<"file", "lower", "mem", "go", "main", "imports", "filedone">>

\* how many of the steps of instrumentSingleAST (import rewrites, Pass 0, Pass 1, Pass 2,
\* bracketing, import finalization) are done on the i-th file of the unit
StepsDone(i) ==
    IF i < cur THEN Len(Positions) - 1
    ELSE IF i > cur THEN 0
    ELSE (CHOOSE k \in 1..Len(Positions) : Positions[k] = pc) - 1

\* C11 as stated: across the files of a unit, Pass 0, Pass 1, Pass 2, bracketing and
\* import finalization are ordered: a file has been through one of them only when every
\* file of the unit has been through the one before
C11_PassesOrderedAcrossUnit ==
    cur >= 1 =>
        \A i, j \in 1..Len(files) :
            \A s \in 2..(Len(Positions) - 2) : StepsDone(i) > s => StepsDone(j) >= s

\* one step of a call: the type check happens once, when the call begins; the steps on a
\* file follow one another in program order and touch no other file; the next file is
\* begun only when the file before it is finished
PassOrder ==
    /\ pc \notin {"idle", "new"} => typeInfo' = typeInfo
    /\ pc = "idle" => (pc' = "idle" \/ (pc' = "file" /\ cur' = 1))
    /\ \A k \in 1..(Len(Positions) - 1) :
          pc = Positions[k] =>
              /\ pc' = Positions[k + 1]
              /\ cur' = cur
              /\ \A i \in 1..Len(files) : i # cur => files'[i] = files[i]
    /\ pc = "filedone" =>
          \/ pc' = "file" /\ cur' = cur + 1 /\ files' = files
          \/ pc' = "idle" /\ cur = Len(files)

\* C11: the type check of the unit is complete before any file is touched; the files are
\* processed one after another in the order given, and on each file import rewrites,
\* Pass 0, Pass 1, Pass 2, bracketing and import finalization run in this order before
\* the next file is begun, so a file not yet begun is as the caller handed it in
C11_PassesOrderedPerFile ==
    /\ [](cur >= 1 => \A i \in (cur + 1)..Len(files) : files[i] = orig[i])
    /\ [][PassOrder]_vars

\* Pass 1 is about to run on the second file, which Pass 0 has rewritten, while the first
\* file already holds its hooks and its imports
C11_Witness ==
    /\ cur = 2
    /\ pc = "mem"
    /\ files[2] # orig[2]
    /\ HooksIn(files[2]) = {}
    /\ HooksIn(files[1]) # {}
    /\ HasBothImports(files[1])

-----------------------------------------------------------------------------
(* Determinism                                                             *)

\* instrumentSingleAST from beginning to end on one file, as a function of the file and
\* of the order in which the range over ImportRewrites yielded its entries
instrumentSingleAST(instr, f, order) ==
    LET lowered == Apply("lower", instr, [f EXCEPT !.Imports = RewriteImports(f.Imports, order)])
        hooked  == Apply("mem", instr, lowered.val)
        spawned == Apply("go", instr, hooked.val)
        main    == instrumentMainFunction(instr, spawned.val)
    IN  finalizeImports(instr, main.file,
                        lowered.made \/ hooked.made \/ spawned.made \/ main.made)

\* C12: the output for a file is the same in every run on the same input and
\* configuration: whatever order the iteration over the ImportRewrites map takes, the
\* processed file is the one that this run produced
C12_SameOutputEveryRun ==
    pc = "filedone" =>
        \A o \in Orders(config.ImportRewrites) :
            instrumentSingleAST(Instr, OrigFile, o) = CurFile

-----------------------------------------------------------------------------
(* Configuration errors                                                    *)

RECURSIVE RewrittenTo(_, _, _)
\* the path that path becomes when the rewrites m are followed n times
RewrittenTo(m, path, n) ==
    IF n = 0 \/ ~\E e \in m : e[1] = path
    THEN path
    ELSE RewrittenTo(m, (CHOOSE e \in m : e[1] = path)[2], n - 1)

\* the rewrites lead from some path back to it
Circular(m) ==
    \E e \in m : \E n \in 1..Cardinality(m) :
        /\ RewrittenTo(m, e[1], n) = e[1]
        /\ \A t \in 1..(n - 1) : \E d \in m : d[1] = RewrittenTo(m, e[1], t)

\* a hook function has no name, or the import rewrites form a cycle
ConfigError(cfg) ==
    \/ "" \in {cfg.MemReadFunc, cfg.MemWriteFunc, cfg.SpawnFunc,
                cfg.GoroutineEnterFunc, cfg.GoroutineExitFunc}
    \/ Circular(cfg.ImportRewrites)

\* C13: with a configuration error, an Instrument* call returns an error and no file of
\* the unit is modified
C13_ConfigErrorReported ==
    (pc # "new" /\ ConfigError(config)) =>
        /\ (pc = "idle" /\ ncalls > 0) => err # "nil"
        /\ cur >= 1 => \A i \in 1..Len(files) : files[i] = orig[i]

-----------------------------------------------------------------------------
(* What instrumentation leaves in place                                    *)

\* the statements of a list that are no calls of the runtime
NotHooks(list, alias) == SelectSeq(list, LAMBDA st : ~IsHook(st, alias))

\* a node without the fields that the walk descends into
Shell(n) ==
    [f \in DOMAIN n \ {Slots(n)[j][1] : j \in 1..Len(Slots(n))} |-> n[f]]

RECURSIVE KeptN(_, _, _)

\* the statements of the original list o are those of n that are no calls of the
\* runtime, in the same order, each kept
KeptL(o, n, alias) ==
    LET u == NotHooks(n, alias)
    IN  /\ Len(u) = Len(o)
        /\ \A i \in 1..Len(o) : KeptN(o[i], u[i], alias)

\* the content of one field is kept
KeptSlot(o, n, slot, alias) ==
    CASE slot[2] = "list" -> KeptL(o[slot[1]], n[slot[1]], alias)
      [] slot[2] \in {"expr", "stmt"} -> KeptN(o[slot[1]], n[slot[1]], alias)
      [] OTHER ->
            /\ Len(n[slot[1]]) = Len(o[slot[1]])
            /\ \A i \in 1..Len(o[slot[1]]) : KeptN(o[slot[1]][i], n[slot[1]][i], alias)

\* the original node o is kept in n: n is o with runtime calls added to its statement
\* lists, but for an if/for that Pass 0 lowered (INIT now stands before it in a block,
\* POST at the end of the body) and a go statement that Pass 2 replaced (its callee and
\* arguments are those of the original)
KeptN(o, n, alias) ==
    CASE o.k \in {"If", "For"} /\ n.k = "Block" ->
            /\ o.Init # NilNode
            /\ KeptL(<<o.Init, [o EXCEPT !.Init = NilNode]>>, n.List, alias)
      [] o.k = "For" /\ n.k = "For" /\ o.Post # NilNode /\ n.Post = NilNode ->
            /\ n.Init = o.Init
            /\ KeptN(o.Cond, n.Cond, alias)
            /\ KeptL(Append(o.Body, o.Post), n.Body, alias)
      [] o.k = "Go" /\ n.k = "Block" ->
            LET bound == NotHooks(n.List, alias)
                spawn == n.List[Len(n.List)]
            IN  /\ IsHook(spawn, alias)
                /\ Len(bound) = Len(o.Call.Args)
                /\ \A i \in 1..Len(bound) : KeptN(o.Call.Args[i], bound[i].Rhs[1], alias)
                /\ KeptN(o.Call.Fun, spawn.X.Args[1].Body[2].X.Fun, alias)
      [] o.k = "File" /\ n.k = "File" ->
            /\ n.Name = o.Name
            /\ Len(n.Imports) >= Len(o.Imports)
            /\ SubSeq(n.Imports, 1, Len(o.Imports)) = o.Imports
            /\ KeptSlot(o, n, <<"Decls", "nodes">>, alias)
      [] OTHER ->
            /\ n.k = o.k
            /\ Shell(n) = Shell(o)
            /\ \A j \in 1..Len(Slots(o)) : KeptSlot(o, n, Slots(o)[j], alias)

-----------------------------------------------------------------------------
(* The runtime alias                                                       *)

\* the Config that NewInstrumenter starts from
Supplied == IF given = NilConfig THEN DefaultConfig ELSE given

\* C15: NewInstrumenter leaves a non-empty RuntimeAlias as the caller supplied it; an
\* empty one becomes "__moriarty_" followed by 16 hex characters, 27 characters in all,
\* which depend on BaseRuntimeAddress alone (for the default path the alias that the
\* README shows); no other field of the Config changes
C15_AliasMinted ==
    pc # "new" =>
        /\ \A f \in DOMAIN Supplied \ {"RuntimeAlias"} : config[f] = Supplied[f]
        /\ IF Supplied.RuntimeAlias # ""
           THEN config.RuntimeAlias = Supplied.RuntimeAlias
           ELSE LET digits == HexChars(Sum256Head(Supplied.BaseRuntimeAddress))
                IN  /\ Len(config.RuntimeAlias) = 27
                    /\ Len(digits) = 16
                    /\ \A i \in 1..Len(digits) :
                          digits[i] \in {"0", "1", "2", "3", "4", "5", "6", "7",
                                         "8", "9", "a", "b", "c", "d", "e", "f"}
                    /\ config.RuntimeAlias
                         = "__moriarty_" \o EncodeToString(Sum256Head(Supplied.BaseRuntimeAddress))
                    /\ Supplied.BaseRuntimeAddress = DefaultConfig.BaseRuntimeAddress
                          => config.RuntimeAlias = "__moriarty_5decea860786e867"
                    /\ \A c \in Configs \ {NilConfig} :
                          (c.BaseRuntimeAddress = Supplied.BaseRuntimeAddress
                           /\ c.RuntimeAlias = "")
                              => NewInstrumenter(c).RuntimeAlias = config.RuntimeAlias

\* an Instrumenter built from a Config that names only a runtime path of the caller's
\* has a minted alias and has processed a file with it
C15_Witness ==
    /\ pc = "filedone"
    /\ given # NilConfig
    /\ given.RuntimeAlias = ""
    /\ given.BaseRuntimeAddress # DefaultConfig.BaseRuntimeAddress
    /\ config.RuntimeAlias # ""
    /\ HasImport(CurFile, config.RuntimeAlias, config.BaseRuntimeAddress)

-----------------------------------------------------------------------------
(* Hooks of a loop condition at run time                                   *)

RECURSIVE ForConds(_)
\* the conditions of the for statements in and under a node
ForConds(n) ==
    (IF n.k = "For" /\ n.Cond # NilNode THEN {n.Cond} ELSE {})
    \cup UNION {ForConds(Kids(n)[j].node) : j \in 1..Len(Kids(n))}

\* the read hooks of an expression of the loop
CondReads(e) == collectReads([config |-> config, typeInfo |-> "info"], e)

\* C16: in a run of the instrumented loop every evaluation of a for condition, the first
\* and each further one, is directly preceded by the read hooks of that condition
C16_CondReadsBeforeEveryTest ==
    loop.on =>
        \A j \in 1..Len(loop.c.trace) :
            loop.c.trace[j] \in ForConds(loop.F) =>
                /\ j > Len(CondReads(loop.c.trace[j]))
                /\ SubSeq(loop.c.trace, j - Len(CondReads(loop.c.trace[j])), j - 1)
                     = CondReads(loop.c.trace[j])

-----------------------------------------------------------------------------
(* Where Pass 1 puts its hooks                                             *)

\* every statement of the list is a read or write hook
AllMemHooks(list) == \A t \in 1..Len(list) : IsRead(list[t]) \/ IsWrite(list[t])

-----------------------------------------------------------------------------
(* The result of Pass 0                                                    *)

RECURSIVE InLists(_)
\* the statements in and under a node that occupy a slot of a statement list
InLists(n) ==
    UNION {(IF Kids(n)[j].kind = "list" THEN {Kids(n)[j].node} ELSE {})
           \cup InLists(Kids(n)[j].node) : j \in 1..Len(Kids(n))}

\* the loop that Pass 0 left for a loop: the second statement of the wrapping block when
\* there was an INIT, else the statement itself
LoopLeft(v) == IF v.stmt.Init # NilNode THEN v.node.List[2] ELSE v.node

\* C18: after Pass 0 an if in a statement list has no INIT and a for in a statement list
\* has neither INIT nor POST; a former INIT is the first of the two statements of a block
\* put in place of the if/for, directly before it, and a former POST is the last
\* statement of the loop body
C18_LoweredShape ==
    pc = "mem" =>
        /\ \A st \in InLists(CurFile) :
              /\ st.k = "If" => st.Init = NilNode
              /\ st.k = "For" => (st.Init = NilNode /\ st.Post = NilNode)
        /\ \A v \in Visits :
              (v.inList /\ v.stmt.k \in {"If", "For"}) =>
                  /\ v.stmt.Init # NilNode =>
                        /\ v.node.k = "Block"
                        /\ Len(v.node.List) = 2
                        /\ v.node.List[1] = v.stmt.Init
                        /\ v.node.List[2].k = v.stmt.k
                        /\ v.node.List[2].Cond = v.stmt.Cond
                        /\ v.node.List[2].Init = NilNode
                  /\ v.stmt.Init = NilNode => v.node.k = v.stmt.k
                  /\ v.stmt.k = "If" =>
                        v.node = (IF v.stmt.Init # NilNode
                                  THEN BlockStmt(<<v.stmt.Init, [v.stmt EXCEPT !.Init = NilNode]>>)
                                  ELSE v.stmt)
                  /\ v.stmt.k = "For" =>
                        /\ LoopLeft(v).Post = NilNode
                        /\ LoopLeft(v).Body
                             = (IF v.stmt.Post # NilNode
                                THEN Append(v.stmt.Body, v.stmt.Post)
                                ELSE v.stmt.Body)

\* Pass 0 came to an if with INIT in a list and to a for with INIT and POST in a list
C18_Witness ==
    /\ pc = "mem"
    /\ \E v \in Visits : v.inList /\ v.stmt.k = "If" /\ v.stmt.Init # NilNode
    /\ \E v \in Visits :
          /\ v.inList
          /\ v.stmt.k = "For"
          /\ v.stmt.Init # NilNode
          /\ v.stmt.Post # NilNode
          /\ v.stmt.Body # <<>>

-----------------------------------------------------------------------------
(* The write walk                                                          *)

RECURSIVE Unparen(_)
\* the expression inside any parentheses
Unparen(e) == IF e.k = "Paren" THEN Unparen(e.X) ELSE e

ReadOf(e)  == ExprStmt(makeMemReadCall(Instr, e))
WriteOf(e) == ExprStmt(makeMemWriteCall(Instr, e))

\* a Pass 1 visit of `LHS = literal` in a list: the hooks put before it are exactly what
\* collectWrites emitted for LHS (a literal has no reads, and `=` adds no read of LHS)
IsStore(v) ==
    /\ v.inList
    /\ v.stmt.k = "Assign"
    /\ v.stmt.Tok = "="
    /\ Len(v.stmt.Lhs) = 1
    /\ ~isBlankIdent(v.stmt.Lhs[1])
    /\ Len(v.stmt.Rhs) = 1
    /\ v.stmt.Rhs[1].k = "BasicLit"

\* what the walk emits for identifiers, fields and dereferences, and the examples
\* `**pp = 200` and `m[2] = 20`
WriteWalkBasics(v) ==
    LET e == Unparen(v.stmt.Lhs[1])
        w == v.before
    IN  /\ e.k = "Ident" => w = <<WriteOf(e)>>
        /\ e.k \in {"Star", "Selector"} => w = collectReads(Instr, e.X) \o <<WriteOf(e)>>
        /\ \A t \in 1..Len(w) : IsWrite(w[t]) => (t = Len(w) /\ HookArg(w[t]) = e)
        /\ \A t \in 1..Len(w) : IsRead(w[t]) \/ IsWrite(w[t])
        /\ \A r \in BOOLEAN :
              /\ e = StarExpr(StarExpr(V("pp", r))) =>
                    w = <<ReadOf(V("pp", r)), ReadOf(StarExpr(V("pp", r))), WriteOf(e)>>
              /\ e = IndexExpr(V("m", r), Lit(2)) => w = <<ReadOf(V("m", r))>>

\* C19 as stated: for *X, X.f and X[I] with X not a map the walk emits the reads of X
\* (then of I) followed by exactly one write of the whole location, last; for an
\* identifier one write and no read; for a map element the reads only; parentheses
\* make no difference
C19_WriteAfterAddressReads ==
    pc = "go" =>
        \A v \in Visits :
            IsStore(v) =>
                LET e == Unparen(v.stmt.Lhs[1])
                IN  /\ WriteWalkBasics(v)
                    /\ e.k = "Index" =>
                          v.before = collectReads(Instr, e.X) \o collectReads(Instr, e.Index)
                                     \o (IF IsMap(e.X) THEN <<>> ELSE <<WriteOf(e)>>)

\* C19: as above, but the write of X[I] is emitted only when the type information
\* records X with a type that is not a map; without type information, or without an
\* entry for X, the walk emits the reads of X and I and no write
C19_WriteWhenTypeKnown ==
    pc = "go" =>
        \A v \in Visits :
            IsStore(v) =>
                LET e == Unparen(v.stmt.Lhs[1])
                IN  /\ WriteWalkBasics(v)
                    /\ e.k = "Index" =>
                          v.before = collectReads(Instr, e.X) \o collectReads(Instr, e.Index)
                                     \o (IF typeInfo # "nil" /\ Recorded(e.X) /\ ~IsMap(e.X)
                                         THEN <<WriteOf(e)>>
                                         ELSE <<>>)

\* Pass 1 came to `arr[i] = 5` with the type of arr known: read arr, read i, write arr[i]
C19_Witness ==
    /\ pc = "go"
    /\ \E v \in Visits :
          /\ IsStore(v)
          /\ v.stmt.Lhs[1] = IndexExpr(V("arr", TRUE), V("i", TRUE))
          /\ v.before = <<ReadOf(V("arr", TRUE)), ReadOf(V("i", TRUE)),
                          WriteOf(v.stmt.Lhs[1])>>

-----------------------------------------------------------------------------
(* Increment and decrement                                                 *)

RECURSIVE ListsOf(_)
\* the statement lists in and under a node
ListsOf(n) ==
    (IF n.k = "Block" THEN {n.List} ELSE {})
    \cup (IF n.k \in {"FuncDecl", "FuncLit", "If", "For", "Range", "Case"} THEN {n.Body} ELSE {})
    \cup UNION {ListsOf(Kids(n)[j].node) : j \in 1..Len(Kids(n))}

-----------------------------------------------------------------------------
(* The result of Pass 2                                                    *)

RECURSIVE GoCount(_)
\* the number of go statements in and under a node
GoCount(n) ==
    LET RECURSIVE Sum(_)
        Sum(q) == IF q = <<>> THEN 0 ELSE GoCount(Head(q).node) + Sum(Tail(q))
    IN  (IF n.k = "Go" THEN 1 ELSE 0) + Sum(Kids(n))

\* ALIAS.fn()
IsLifecycle(st, fn) ==
    /\ IsHook(st, config.RuntimeAlias)
    /\ HookFn(st) = fn
    /\ st.X.Args = <<>>

\* the block is what replaces `go FUN(ARGS)`: its last statement is ALIAS.Spawn(func() {
\* ALIAS.GoroutineEnter(); FUN(__moriarty_p0, ...); ALIAS.GoroutineExit() })
IsSpawnBlock(b, call) ==
    /\ b.k = "Block"
    /\ b.List # <<>>
    /\ LET last == b.List[Len(b.List)]
       IN  /\ IsHook(last, config.RuntimeAlias)
           /\ HookFn(last) = config.SpawnFunc
           /\ Len(last.X.Args) = 1
           /\ last.X.Args[1].k = "FuncLit"
           /\ LET body == last.X.Args[1].Body
              IN  /\ Len(body) = 3
                  /\ IsLifecycle(body[1], config.GoroutineEnterFunc)
                  /\ body[2].k = "ExprStmt"
                  /\ body[2].X.k = "Call"
                  /\ body[2].X.Fun = call.Fun
                  /\ Len(body[2].X.Args) = Len(call.Args)
                  /\ \A i \in 1..Len(call.Args) :
                        /\ body[2].X.Args[i].k = "Ident"
                        /\ body[2].X.Args[i].name = paramName(i - 1)
                  /\ IsLifecycle(body[3], config.GoroutineExitFunc)

\* the runs of the Pass 2 callback on go statements, in order
GoRuns == SelectSeq(cursorLog, LAMBDA v : v.stmt.k = "Go")

\* C21: when Pass 2 has run over a file no go statement is left in it, whether it stood in
\* a list, under a label, in the function literal or in an argument of another go
\* statement; the callback ran once on each go statement of the file, found no go
\* statement left under it, and put in its place a block ending in the runtime spawn call
\* on a closure without parameters whose body is the enter hook, the original callee
\* applied to the temporaries, and the exit hook
C21_NoGoStmtLeft ==
    pc = "main" =>
        /\ GoCount(CurFile) = 0
        /\ Len(GoRuns) = GoCount(OrigFile)
        /\ \A j \in 1..Len(GoRuns) :
              LET v == GoRuns[j]
              IN  /\ v.before = <<>>
                  /\ GoCount(v.stmt) = 1
                  /\ IsSpawnBlock(v.node, v.stmt.Call)

\* Pass 2 ran over a go statement under a label that has a go statement in its function
\* literal and one in an argument: three spawn blocks, the inner ones inside the outer
C21_Witness ==
    /\ pc = "main"
    /\ Len(GoRuns) = 3
    /\ ~GoRuns[3].inList
    /\ GoRuns[3].stmt.Call.Fun.k = "FuncLit"
    /\ IsSpawnBlock(GoRuns[3].stmt.Call.Fun.Body[1], GoRuns[1].stmt.Call)
    /\ IsSpawnBlock(GoRuns[3].stmt.Call.Args[1].Body[1], GoRuns[2].stmt.Call)
    /\ IsSpawnBlock(GoRuns[3].node, GoRuns[3].stmt.Call)
    /\ GoCount(CurFile) = 0

-----------------------------------------------------------------------------
(* Entry-point bracketing                                                  *)

\* a receiverless function named main with a body
IsEntry(d) == d.k = "FuncDecl" /\ d.Name.name = "main" /\ ~d.Recv /\ d.HasBody

\* the file is of package main and declares the entry function
HasEntry(f) == f.Name = "main" /\ \E i \in 1..Len(f.Decls) : IsEntry(f.Decls[i])

\* the body starts with the enter hook and ends with the exit hook
Bracketed(d) ==
    /\ d.HasBody
    /\ Len(d.Body) >= 2
    /\ IsLifecycle(d.Body[1], config.GoroutineEnterFunc)
    /\ IsLifecycle(d.Body[Len(d.Body)], config.GoroutineExitFunc)

\* the bracketing step: with an entry function, one declaration of the file gets the
\* enter hook before and the exit hook after its body and the file is marked; without,
\* the file and the mark stay as they are
BracketStep ==
    pc = "main" =>
        IF HasEntry(files[cur])
        THEN /\ instrumented'
             /\ \E i \in 1..Len(files[cur].Decls) :
                   /\ IsEntry(files[cur].Decls[i])
                   /\ files'[cur] =
                        [files[cur] EXCEPT !.Decls[i].Body =
                            <<LifecycleCall(Instr, config.GoroutineEnterFunc)>> \o @
                            \o <<LifecycleCall(Instr, config.GoroutineExitFunc)>>]
        ELSE /\ files' = files
             /\ instrumented' = instrumented

\* C22: a file is bracketed exactly when its package is main and it declares a function
\* main without receiver and with a body; once all passes and the bracketing are done,
\* that function's body starts with the enter hook and ends with the exit hook, no
\* other function of the file is bracketed, and the file is marked as instrumented
C22_MainBracketed ==
    /\ [](pc \in {"imports", "filedone"} =>
            IF HasEntry(OrigFile)
            THEN /\ pc = "imports" => instrumented
                 /\ \E i \in 1..Len(CurFile.Decls) :
                       /\ IsEntry(OrigFile.Decls[i])
                       /\ Bracketed(CurFile.Decls[i])
                       /\ \A j \in 1..Len(CurFile.Decls) :
                             j # i => ~Bracketed(CurFile.Decls[j])
            ELSE \A j \in 1..Len(CurFile.Decls) : ~Bracketed(CurFile.Decls[j]))
    /\ [][BracketStep]_vars

\* a file of package main with a method main and the function main, whose increment got
\* its hooks: the function's body is enter hook, read, write, the increment, exit hook,
\* and the method is as it was
C22_Witness ==
    /\ pc = "imports"
    /\ instrumented
    /\ Len(CurFile.Decls) = 2
    /\ OrigFile.Decls[1].Recv
    /\ ~Bracketed(CurFile.Decls[1])
    /\ Bracketed(CurFile.Decls[2])
    /\ Len(CurFile.Decls[2].Body) = 5
    /\ IsRead(CurFile.Decls[2].Body[2])
    /\ IsWrite(CurFile.Decls[2].Body[3])
    /\ CurFile.Decls[2].Body[4] = sInc(TRUE)

-----------------------------------------------------------------------------
(* Selectors without type information                                      *)

RECURSIVE Receivers(_)
\* the identifiers X of the selectors X.f in and under a node
Receivers(n) ==
    (IF n.k = "Selector" /\ n.X.k = "Ident" THEN {n.X} ELSE {})
    \cup UNION {Receivers(Kids(n)[j].node) : j \in 1..Len(Kids(n))}

\* C23: without type information, no hook that Pass 1 puts before a statement has as
\* operand an identifier that is the receiver of a selector of that statement, whether
\* the selector is read or assigned to
C23_NoHookOnReceiver ==
    (pc = "go" /\ typeInfo = "nil") =>
        \A v \in Visits :
            \A t \in 1..Len(v.before) : HookArg(v.before[t]) \notin Receivers(v.stmt)

-----------------------------------------------------------------------------
(* Statements outside statement lists                                      *)

\* C24: a statement that Pass 1 comes to in a slot that is not a statement list (under a
\* label, as init of a switch, as else branch) is skipped: nothing is inserted before it
\* and the statement is left as it is, so no hook is in the file on its behalf
C24_NonListSkipped ==
    pc = "go" =>
        \A v \in Visits : ~v.inList => (v.before = <<>> /\ v.node = v.stmt)

-----------------------------------------------------------------------------
(* The unsafe import                                                       *)

\* C25: a file that import finalization gave the unsafe import holds a read or write
\* hook, the only inserted code that uses unsafe.Pointer
C25_UnsafeOnlyWithMemHooks ==
    (pc = "filedone" /\ HasImport(CurFile, "", "unsafe") /\ ~HasImport(OrigFile, "", "unsafe"))
        => \E h \in Hooks : IsRead(h) \/ IsWrite(h)

-----------------------------------------------------------------------------
(* Scope of the hooks' operands                                            *)

\* the names a define statement introduces
Introduced(st) ==
    IF st # NilNode /\ st.k = "Assign" /\ st.Tok = ":="
    THEN {st.Lhs[i].name : i \in {j \in 1..Len(st.Lhs) : st.Lhs[j].k = "Ident" /\ st.Lhs[j].def}}
    ELSE {}

\* the names a statement itself declares: by being a define, or in its init statement;
\* they are in scope only from the statement on
Declares(st) ==
    CASE st.k = "Assign" -> Introduced(st)
      [] st.k \in {"If", "For", "Switch"} -> Introduced(st.Init)
      [] OTHER -> {}

\* C26: no hook that Pass 1 puts before a statement names in its operand a variable that
\* the statement itself declares (in its init statement or by being a define): before
\* the statement that variable is not in scope, or the name denotes another variable
C26_HookOperandsInScope ==
    pc = "go" =>
        \A v \in Visits :
            \A t \in 1..Len(v.before) :
                \A id \in IdentsE(HookArg(v.before[t])) : id.name \notin Declares(v.stmt)

-----------------------------------------------------------------------------
(* What a started task calls                                               *)

\* C27: with no-op hooks, the call a started task makes is the call the go statement
\* evaluated to when the launching task came to it: the function value (a function
\* variable, a method value with its receiver) and the arguments as they were then,
\* whatever the launching task assigns afterwards
C27_CalleeFixedAtSpawn ==
    launch.on =>
        \A j \in 1..Len(launch.calls) :
            launch.calls[j].call = launch.atGo[launch.calls[j].task]

-----------------------------------------------------------------------------
(* C28: under ReplayStrategy, while the trace is not exhausted, blocked    *)
(* goroutines are released in the order of the trace: the k-th release is  *)
(* of an event with the goroutine id and kind of the k-th trace entry, it  *)
(* happens in the scan with the index just moved to k, a release outside   *)
(* the scan happens only past the end of the trace, and every event held   *)
(* in the backlog has its goroutine blocked in Wait.                       *)
C28_ReleaseInTraceOrder ==
    (rt.on /\ rt.mode = "replay") =>
        /\ \A k \in 1..Len(rt.released) :
              /\ k <= Len(rt.trace) =>
                    /\ rt.released[k].GoID = rt.trace[k].GoID
                    /\ rt.released[k].Kind = rt.trace[k].Kind
                    /\ ~rt.atRelease[k].direct
                    /\ rt.atRelease[k].idx = k
              /\ rt.atRelease[k].direct => rt.atRelease[k].idx >= rt.atRelease[k].len
        /\ \A b \in rt.backLog : rt.gs[b.ev.GoID].pc = "wait"

\* an event that arrived before its turn was held and released at its place in the trace
C28_Witness ==
    /\ rt.on /\ rt.mode = "replay"
    /\ \E k \in 1..Len(rt.released) :
          /\ ~rt.atRelease[k].direct
          /\ rt.released[k] # rt.received[k]
          /\ rt.released[k].GoID = rt.trace[k].GoID
          /\ rt.released[k].Kind = rt.trace[k].Kind

-----------------------------------------------------------------------------
(* C29: under ReplayStrategy with fair scheduling, every goroutine blocked *)
(* in a hook is eventually released.                                       *)
C29_EveryYieldReleased ==
    \A g \in {1, 2} :
        (rt.on /\ rt.mode = "replay" /\ rt.gs[g].pc = "wait") ~> (rt.gs[g].pc # "wait")

(* C29, the backlog at the end of the trace: when OnEvent has returned     *)
(* with the index at the end of the trace, no event is left in the backlog *)
C29_BacklogDrainedAtEnd ==
    (rt.on /\ rt.mode = "replay" /\ rt.loop.pc = "recv" /\ rt.idx >= Len(rt.trace)) =>
        rt.backLog = {}

(* C29, the loop: whenever the loop is in unblock, the goroutine is in     *)
(* Wait on a registered channel, so the send completes                     *)
C29_UnblockNeverStuck ==
    (rt.on /\ rt.mode = "replay" /\ rt.loop.pc = "unblock") =>
        /\ rt.loop.v.GoID \in rt.registered
        /\ rt.gs[rt.loop.v.GoID].pc = "wait"

-----------------------------------------------------------------------------
(* C30: under RecordStrategy, every event whose hook call has returned     *)
(* before Finalize is in the trace that OnFinalize saves, and the saved    *)
(* events are in the order in which the scheduler loop received them.      *)
C30_ReturnedEventsSaved ==
    (rt.on /\ rt.mode = "record" /\ rt.finalized) =>
        /\ \A k \in 1..Len(rt.returnedAtFinalize) :
              \E j \in 1..Len(rt.saved) : rt.saved[j] = rt.returnedAtFinalize[k]
        /\ Len(rt.saved) <= Len(rt.received)
        /\ rt.saved = SubSeq(rt.received, 1, Len(rt.saved))

(* C30, the order alone: the saved trace is the first events the loop      *)
(* received, in that order                                                 *)
C30_SavedInReceiveOrder ==
    (rt.on /\ rt.mode = "record" /\ rt.finalized) =>
        /\ Len(rt.saved) <= Len(rt.received)
        /\ rt.saved = SubSeq(rt.received, 1, Len(rt.saved))

=============================================================================
